---------------------------- MODULE Spec2Model ----------------------------
(***************************************************************************)
(* Careers-page integration: the browser-side job browser controllers.     *)
(*                                                                         *)
(* Two controller scripts of the repository are modelled, and the page     *)
(* loads one of them (variable controller):                                *)
(*   "Unified"  - class UnifiedJobApplicationSystem                        *)
(*   "Enhanced" - class EnhancedJobListingManager extends JobListingManager*)
(*                                                                         *)
(* Text is a sequence of one-character strings, so that toLowerCase, trim, *)
(* includes and localeCompare are computed character by character.         *)
(***************************************************************************)
EXTENDS Integers, Sequences, FiniteSets, Bags, TLC

(***************************************************************************)
(* Bounds of the model                                                     *)
(***************************************************************************)
\* history entries kept by the browser tab
MaxHistory == 4
\* fetches that may be outstanding at the same time
MaxInFlight == 2
\* banner auto-dismiss timers that may be pending at the same time
MaxTimers == 2
\* tokens that reinitialize may leave behind, their files no longer pending
MaxStale == 1

(***************************************************************************)
(* Text                                                                    *)
(***************************************************************************)
UpperLetters ==
  <<"A","B","C","D","E","F","G","H","I","J","K","L","M",
    "N","O","P","Q","R","S","T","U","V","W","X","Y","Z">>

LowerLetters ==
  <<"a","b","c","d","e","f","g","h","i","j","k","l","m",
    "n","o","p","q","r","s","t","u","v","w","x","y","z">>

\* index of character c in the sequence of characters s, or 0
IndexIn(s, c) ==
  IF \E i \in DOMAIN s : s[i] = c THEN CHOOSE i \in DOMAIN s : s[i] = c ELSE 0

\* String.prototype.toLowerCase, one character
LowerChar(c) ==
  IF IndexIn(UpperLetters, c) # 0 THEN LowerLetters[IndexIn(UpperLetters, c)] ELSE c

\* String.prototype.toLowerCase
toLowerCase(s) == [i \in DOMAIN s |-> LowerChar(s[i])]

IsSpace(c) == c = " "

\* String.prototype.trim: cut the white space at both ends
trim(s) ==
  IF \A i \in DOMAIN s : IsSpace(s[i])
    THEN << >>
    ELSE LET first == CHOOSE i \in DOMAIN s :
                        /\ ~IsSpace(s[i])
                        /\ \A j \in 1..(i - 1) : IsSpace(s[j])
             last  == CHOOSE i \in DOMAIN s :
                        /\ ~IsSpace(s[i])
                        /\ \A j \in (i + 1)..Len(s) : IsSpace(s[j])
         IN  SubSeq(s, first, last)

\* String.prototype.includes
includes(s, t) ==
  \E k \in 0..(Len(s) - Len(t)) : SubSeq(s, k + 1, k + Len(t)) = t

\* collation weight of a character: white space, then the letters; sortJobs only
\* ever compares lower-cased text, capitals are ranked after the small letters
CharRank(c) ==
  IF IsSpace(c) THEN 0
  ELSE IF IndexIn(LowerLetters, c) # 0 THEN IndexIn(LowerLetters, c)
  ELSE IF IndexIn(UpperLetters, c) # 0 THEN Len(LowerLetters) + IndexIn(UpperLetters, c)
  ELSE Len(LowerLetters) + Len(UpperLetters) + 1

\* String.prototype.localeCompare: negative, zero or positive
RECURSIVE localeCompare(_, _)
localeCompare(a, b) ==
  IF a = << >> /\ b = << >> THEN 0
  ELSE IF a = << >> THEN -1
  ELSE IF b = << >> THEN 1
  ELSE IF CharRank(Head(a)) < CharRank(Head(b)) THEN -1
  ELSE IF CharRank(Head(a)) > CharRank(Head(b)) THEN 1
  ELSE localeCompare(Tail(a), Tail(b))

(***************************************************************************)
(* Jobs the listing endpoint may return                                    *)
(***************************************************************************)
Engineer == <<"E","n","g","i","n","e","e","r">>
Designer == <<"D","e","s","i","g","n","e","r">>
Analyst  == <<"A","n","a","l","y","s","t">>
Acme     == <<"A","c","m","e">>
Beta     == <<"B","e","t","a">>
Leeds    == <<"L","e","e","d","s">>
Remote   == <<"R","e","m","o","t","e">>
leedsLow == <<"l","e","e","d","s">>
Bath     == <<"B","a","t","h">>

Job1 == [id |-> 1, title |-> Engineer, company |-> Acme, location |-> Leeds]
Job2 == [id |-> 2, title |-> Designer, company |-> Acme, location |-> Remote]
Job3 == [id |-> 3, title |-> Analyst,  company |-> Beta, location |-> leedsLow]
Job4 == [id |-> 4, title |-> Analyst,  company |-> Acme, location |-> Bath]


\* URLSearchParams text of a job id: Number.prototype.toString
IdText == <<"1", "2", "3", "4">>

toString(n) == IdText[n]

\* parseInt(text, 10); NaN is represented by a negative number
parseInt(text) == IF IndexIn(IdText, text) # 0 THEN IndexIn(IdText, text) ELSE 0 - 1

isNaN(n) == n < 0

(***************************************************************************)
(* State                                                                   *)
(***************************************************************************)
VARIABLES
  controller,     \* which controller script the page runs
  jobs,           \* this.jobs
  filteredJobs,   \* this.filteredJobs
  sortBy,         \* this.sortBy
  sortOrder,      \* this.sortOrder
  searchValue,    \* value of the role-search input
  debounceTimer,  \* JobSearchFilter.debounceTimer: 0 (null) or a timer handle
  searchTimers,   \* handles of the debounce timers that have not fired yet
  roleListWrap,   \* content of the list container
  loaderHidden,   \* class "hide" on the roles loader
  hide,           \* class "hide" on each section
  displayNone,    \* style.display = "none" on each section
  currentJob,     \* this.currentJob: 0 (null) or the id of the job held
  jobId,          \* this.jobId of the application form: "" (null) or text
  history,        \* session history of the tab: entries [url, state]
  cursor,         \* index of the current history entry
  requests,       \* bag of the fetches whose response has not been handled yet
  banners,        \* bag of the banner elements whose auto-dismiss timer is pending
  lastOp,         \* the handler that ran last, with its input
  formScript,     \* which application-form script the page runs
  formFields,     \* values of the form's text inputs and of the consent box
  uploadedResumeFile,       \* the pending resume (uploadedFile): a file or NoFile
  uploadedCoverLetterFile,  \* the pending cover letter: a file or NoFile
  uploadedAdditionalFiles,  \* the pending additional files
  fileTokens,     \* the files of the .uploaded-file elements of each input's container
  uploadHidden,   \* the upload control of each file input is hidden
  formHidden,     \* class "hide" on the form
  submitDisabled, \* the submit button is disabled
  submitValue,    \* the label of the submit button
  applyRequests,  \* bag of the apply POSTs whose response has not been handled yet
  wMessages,      \* the page's own success and failure blocks (form.ts)
  wTimers,        \* bag of the pending timers that hide those blocks
  lastSelected,   \* the job of the visitor's latest selection whose fetch has not
                  \* failed: 0 for none (history, not a field of the program)
  server          \* the route handlers of the server: their environment, the
                  \* request being served, the upstream calls made for it and
                  \* the response returned

listVars == <<jobs, filteredJobs, sortBy, sortOrder, searchValue, debounceTimer,
              searchTimers, roleListWrap, loaderHidden>>
navVars  == <<hide, displayNone, currentJob, jobId, history, cursor>>
formVars == <<formScript, formFields, uploadedResumeFile, uploadedCoverLetterFile,
              uploadedAdditionalFiles, fileTokens, uploadHidden, formHidden,
              submitDisabled, submitValue, applyRequests, wMessages, wTimers>>
pageVars == <<controller, listVars, navVars, requests, banners, lastOp, formVars,
              lastSelected>>
vars     == <<pageVars, server>>

Sections == {"roles", "description", "application"}

\* a section is displayed when neither the class nor the inline style hides it
Visible(s) == ~hide[s] /\ ~displayNone[s]

Op(name, arg) == [name |-> name, arg |-> arg]

(***************************************************************************)
(* Job list: filter, sort, render                                          *)
(***************************************************************************)
\* mutant of Matches: the location is not searched
Matches_noLocation(job, term) ==
  \/ includes(toLowerCase(job.title), term)
  \/ includes(toLowerCase(job.company), term)

\* the predicate of the filter callback
Matches(job, term) ==
  \/ includes(toLowerCase(job.title), term)
  \/ includes(toLowerCase(job.company), term)
  \/ includes(toLowerCase(job.location), term)

\* Array.prototype.filter
RECURSIVE Filter(_, _)
Filter(list, term) ==
  IF list = << >> THEN << >>
  ELSE IF Matches(Head(list), term)
    THEN <<Head(list)>> \o Filter(Tail(list), term)
    ELSE Filter(Tail(list), term)

\* filterJobs: the new value of filteredJobs
filterJobs(list, searchTerm) ==
  LET term == trim(toLowerCase(searchTerm))
  IN  IF term = << >> THEN list ELSE Filter(list, term)

\* mutant of Compare: the values are compared as they are written
Compare_caseSensitive(a, b, by, order) ==
  IF order = "asc" THEN localeCompare(a[by], b[by])
                   ELSE localeCompare(b[by], a[by])

\* the comparator handed to Array.prototype.sort
Compare(a, b, by, order) ==
  LET aValue == toLowerCase(a[by])
      bValue == toLowerCase(b[by])
  IN  IF order = "asc" THEN localeCompare(aValue, bValue)
                       ELSE localeCompare(bValue, aValue)

\* Array.prototype.sort is stable: x goes behind every element that does not
\* compare greater than it
InsertSorted(x, s, by, order) ==
  LET p == Cardinality({i \in DOMAIN s : Compare(s[i], x, by, order) <= 0})
  IN  SubSeq(s, 1, p) \o <<x>> \o SubSeq(s, p + 1, Len(s))

RECURSIVE sortJobs(_, _, _)
sortJobs(list, by, order) ==
  IF list = << >> THEN << >>
  ELSE InsertSorted(list[Len(list)],
                    sortJobs(SubSeq(list, 1, Len(list) - 1), by, order),
                    by, order)

\* mutant of toggleSort: the order is reset on every activation
toggleSort_alwaysAsc(by, order) == <<"location", "asc">>

\* toggleSort: the new <<sortBy, sortOrder>>
toggleSort(by, order) ==
  IF by = "location"
    THEN <<"location", IF order = "asc" THEN "desc" ELSE "asc">>
    ELSE <<"location", "asc">>

\* mutant of renderJobList: an empty list is rendered as a list without items
renderJobList_noPlaceholder(list) ==
  [kind |-> "list", items |-> [i \in DOMAIN list |-> list[i].id]]

\* renderJobList: the new content of the list container
renderJobList(list) ==
  IF Len(list) = 0
    THEN [kind |-> "noJobs", items |-> << >>]
    ELSE [kind |-> "list", items |-> [i \in DOMAIN list |-> list[i].id]]

\* showLoading: the new content of the list container
showLoading == [kind |-> "loading", items |-> << >>]

(***************************************************************************)
(* Sections, URL and session history                                       *)
(*                                                                         *)
(* The page is taken to hold every dev-target element, with the listing    *)
(* section displayed and the other two hidden when the script starts.      *)
(***************************************************************************)
\* history.pushState from entry c: the entries after c are dropped
pushState(c, url, state) ==
  /\ c < MaxHistory
  /\ history' = Append(SubSeq(history, 1, c), [url |-> url, state |-> state])
  /\ cursor' = c + 1

\* getJobIdFromURL at entry c: "" stands for null
getJobIdFromURL(c) == history[c].url

\* updateUrlWithJobId
updateUrlWithJobId(c, id) == pushState(c, toString(id), id)

\* mutant of removeJobIdFromUrl: the entry pushed keeps the address as it is
removeJobIdFromUrl_keepsUrl(c) == pushState(c, history[c].url, 0)

\* removeJobIdFromUrl
removeJobIdFromUrl(c) == pushState(c, "", 0)

\* showRolesSection, run with the tab at history entry c
showRolesSection(c) ==
  /\ hide' = [s \in Sections |-> s # "roles"]
  /\ IF controller = "Unified"
       THEN removeJobIdFromUrl(c)
       ELSE /\ history' = history
            /\ cursor' = c

\* showJobDescription with this.currentJob = job
showJobDescription(job) ==
  IF job = 0
    THEN UNCHANGED <<hide, history, cursor>>
    ELSE IF controller = "Unified"
      THEN /\ updateUrlWithJobId(cursor, job)
           /\ hide' = [s \in Sections |-> s # "description"]
      ELSE /\ hide' = [hide EXCEPT !["description"] = FALSE, !["roles"] = TRUE]
           /\ UNCHANGED <<history, cursor>>

\* UnifiedJobApplicationSystem.showApplicationSection
showApplicationSection ==
  /\ hide' = [s \in Sections |-> s # "application"]
  /\ IF currentJob # 0
       THEN updateUrlWithJobId(cursor, currentJob)
       ELSE UNCHANGED <<history, cursor>>

\* EnhancedJobListingManager.hideAllSections
hideAllSections ==
  displayNone' = [displayNone EXCEPT !["description"] = TRUE,
                                     !["application"] = TRUE]

\* UnifiedJobApplicationSystem.getCurrentVisibleSection: looks at the class only
getCurrentVisibleSection ==
  IF ~hide["application"] THEN "application"
  ELSE IF ~hide["description"] THEN "description"
  ELSE IF ~hide["roles"] THEN "roles"
  ELSE "none"

(***************************************************************************)
(* Banners                                                                 *)
(***************************************************************************)
\* A banner element lives from showError / showSuccess until its own timer
\* fires, in the document (attached) or already removed from it; what a removed
\* element says and where it was can no longer be seen.
Banner(kind, message, parent) ==
  IF parent = "none"
    THEN [kind |-> kind, msg |-> "", parent |-> "none", attached |-> FALSE]
    ELSE [kind |-> kind, msg |-> message, parent |-> parent, attached |-> TRUE]

\* mutant of RemoveKind: the earlier banners stay
RemoveKind_none(B, kind) == B

\* element.remove() on every banner of the kind
RemoveKind(B, kind) ==
  LET Removed(b) == IF b.kind = kind THEN Banner(kind, "", "none") ELSE b
      S == {Removed(b) : b \in BagToSet(B)}
  IN  [c \in S |->
         IF c.kind = kind
           THEN BagCardinality([b \in {x \in BagToSet(B) : x.kind = kind} |-> B[b]])
           ELSE B[c]]

\* showError: the earlier error banners go, the new one is put at the top of the
\* section on display (Unified) or of the listing section (JobListingManager),
\* and its auto-dismiss timer starts
showError(message) ==
  LET parent == IF controller = "Unified" THEN getCurrentVisibleSection ELSE "roles"
  IN  /\ BagCardinality(banners) < MaxTimers
      /\ banners' = RemoveKind(banners, "error")
                      (+) SetToBag({Banner("error", message, parent)})

\* a banner is seen when it is in the document and its section is displayed
BannerShown(kind) ==
  \E b \in BagToSet(banners) : b.kind = kind /\ b.attached /\ Visible(b.parent)

(***************************************************************************)
(* Fetches                                                                 *)
(***************************************************************************)
Request(kind, origin, id) == [kind |-> kind, origin |-> origin, id |-> id]

OneLess(B, e) == B (-) SetToBag({e})

OneMore(B, e) == B (+) SetToBag({e})

(***************************************************************************)
(* Application form: construction                                          *)
(***************************************************************************)
\* null in a file slot
NoFile == [id |-> 0, type |-> "", size |-> 0]

FileInputs == {"Resume", "cover_letter", "additional"}

\* the form as form.reset() leaves it
EmptyForm ==
  [firstName |-> << >>, lastName |-> << >>, email |-> << >>, phoneNumber |-> << >>,
   linkedinUrl |-> << >>, consent |-> FALSE]

\* submitButton.value as the page was written
originalButtonText == "Apply Now"

\* the state of the form when the constructor of script returns
FormConstructed(script) ==
  /\ formScript = script
  /\ formFields = EmptyForm
  /\ uploadedResumeFile = NoFile
  /\ uploadedCoverLetterFile = NoFile
  /\ uploadedAdditionalFiles = << >>
  /\ fileTokens = [input \in FileInputs |-> << >>]
  /\ uploadHidden = [input \in FileInputs |-> FALSE]
  /\ formHidden = FALSE
  /\ submitDisabled = FALSE
  /\ submitValue = originalButtonText
  /\ applyRequests = EmptyBag
  /\ wMessages = [done |-> FALSE, fail |-> FALSE, text |-> ""]
  /\ wTimers = EmptyBag

(***************************************************************************)
(* Server environment                                                      *)
(***************************************************************************)
\* process.env.BEARER_AUTH: unset, set to the empty text, or set to a token
Unset    == [set |-> FALSE, value |-> "undefined"]
EmptyEnv == [set |-> TRUE, value |-> ""]
Secret   == [set |-> TRUE, value |-> "secret"]

\* no request on the server, and no response
NoRequest == [route |-> "none"]

NoResponse == [status |-> 0]

\* what a fetch of the upstream API may settle with: rejected, a status that is
\* not a success, or a success whose body json() parses or not
NoJson == [shape |-> "none", results |-> << >>]

Rejected ==
  [fetched |-> FALSE, ok |-> FALSE, status |-> 0, parsable |-> FALSE, json |-> NoJson]

Refused(status) ==
  [fetched |-> TRUE, ok |-> FALSE, status |-> status, parsable |-> TRUE, json |-> NoJson]

Unparsable ==
  [fetched |-> TRUE, ok |-> TRUE, status |-> 200, parsable |-> FALSE, json |-> NoJson]

Answered(json) ==
  [fetched |-> TRUE, ok |-> TRUE, status |-> 200, parsable |-> TRUE, json |-> json]

\* the server as deployed with the environment env, before a request: no
\* upstream call made, no fetch fulfilled, no response
ServerStarted(env) ==
  [BEARER_AUTH |-> env, phase |-> "idle", request |-> NoRequest,
   calls |-> << >>, fetched |-> Rejected, response |-> NoResponse]

(***************************************************************************)
(* Construction                                                            *)
(*                                                                         *)
(* The state when the constructor returns: the elements are looked up, the *)
(* listeners bound, showLoading has run and the job-list fetch is out.     *)
(***************************************************************************)
InitWith(urls) ==
  /\ controller \in {"Unified", "Enhanced"}
  /\ jobs = << >>
  /\ filteredJobs = << >>
  /\ sortBy = "title"
  /\ sortOrder = "asc"
  /\ searchValue = << >>
  /\ debounceTimer = 0
  /\ searchTimers = {}
  /\ roleListWrap = showLoading
  /\ loaderHidden = FALSE
  /\ hide = [s \in Sections |-> s # "roles"]
  /\ displayNone = [s \in Sections |-> FALSE]
  /\ currentJob = 0
  /\ \E u \in urls :
       /\ controller = "Enhanced" => u = ""
       /\ history = <<[url |-> u, state |-> 0]>>
       /\ jobId = u
  /\ cursor = 1
  /\ requests = SetToBag({Request("jobs", "init", 0)})
  /\ banners = EmptyBag
  /\ lastOp = Op("constructor", << >>)
  /\ FormConstructed(IF controller = "Unified" THEN "Unified" ELSE "None")
  /\ lastSelected = 0
  /\ server = ServerStarted(Secret)

\* the list container as the page was written, before showLoading
staticList == [kind |-> "static", items |-> << >>]

\* The state when the constructor of the unified controller returns on a page
\* that lacks the form, the resume input or the submit button:
\* initializeFormElements returns before it assigns formElements,
\* bindJobEvents binds the job events, bindFormEvents throws on
\* this.formElements.form, and the catch of initializeSystem shows its banner;
\* setupInitialState, injectStyles and loadJobs are not reached.
InitWithout(urls) ==
  /\ controller = "Unified"
  /\ jobs = << >>
  /\ filteredJobs = << >>
  /\ sortBy = "title"
  /\ sortOrder = "asc"
  /\ searchValue = << >>
  /\ debounceTimer = 0
  /\ searchTimers = {}
  /\ roleListWrap = staticList
  /\ loaderHidden \in BOOLEAN
  /\ hide = [s \in Sections |-> s # "roles"]
  /\ displayNone = [s \in Sections |-> FALSE]
  /\ currentJob = 0
  /\ \E u \in urls : history = <<[url |-> u, state |-> 0]>>
  /\ jobId = ""
  /\ cursor = 1
  /\ requests = EmptyBag
  /\ banners = SetToBag({Banner("error",
                   "System initialization failed. Please refresh the page.", "roles")})
  /\ lastOp = Op("constructor", << >>)
  /\ FormConstructed("None")
  /\ lastSelected = 0
  /\ server = ServerStarted(Secret)

(***************************************************************************)
(* Job list                                                                *)
(***************************************************************************)
\* handleInitialJobLoad, which initializeSystem runs once loadJobs has settled;
\* rest are the fetches still outstanding
handleInitialJobLoad(rest) ==
  LET urlJobId == getJobIdFromURL(cursor)
  IN  IF urlJobId # "" /\ ~isNaN(parseInt(urlJobId))
        THEN /\ requests' = OneMore(rest, Request("details", "init", parseInt(urlJobId)))
             /\ UNCHANGED <<hide, history, cursor>>
        ELSE /\ requests' = rest
             /\ IF urlJobId # ""
                  THEN showRolesSection(cursor)
                  ELSE UNCHANGED <<hide, history, cursor>>

\* what follows the job-list response r
AfterLoadJobs(r) ==
  IF controller = "Unified" /\ r.origin = "init"
    THEN handleInitialJobLoad(OneLess(requests, r))
    ELSE /\ requests' = OneLess(requests, r)
         /\ UNCHANGED <<hide, history, cursor>>

\* mutant of JobsLoaded: filteredJobs is not derived again from the new list
JobsLoaded_keepsFiltered(r, list) ==
  /\ BagIn(r, requests)
  /\ r.kind = "jobs"
  /\ jobs' = list
  /\ roleListWrap' = renderJobList(filteredJobs)
  /\ loaderHidden' = TRUE
  /\ AfterLoadJobs(r)
  /\ lastOp' = Op("jobsLoaded", r.origin)
  /\ UNCHANGED <<server, lastSelected, formVars, controller, filteredJobs, sortBy, sortOrder, searchValue,
                 debounceTimer, searchTimers, displayNone, currentJob, jobId,
                 banners>>

\* loadJobs, the response is a success carrying list
JobsLoaded(r, list) ==
  /\ BagIn(r, requests)
  /\ r.kind = "jobs"
  /\ jobs' = list
  /\ filteredJobs' = list
  /\ roleListWrap' = renderJobList(list)
  /\ loaderHidden' = TRUE
  /\ AfterLoadJobs(r)
  /\ lastOp' = Op("jobsLoaded", r.origin)
  /\ UNCHANGED <<server, lastSelected, formVars, controller, sortBy, sortOrder, searchValue, debounceTimer,
                 searchTimers, displayNone, currentJob, jobId, banners>>

\* loadJobs, the fetch fails or the status is not a success
JobsFailed(r) ==
  /\ BagIn(r, requests)
  /\ r.kind = "jobs"
  /\ showError("Failed to load jobs")
  /\ loaderHidden' = TRUE
  /\ AfterLoadJobs(r)
  /\ lastOp' = Op("jobsFailed", r.origin)
  /\ UNCHANGED <<server, lastSelected, formVars, controller, jobs, filteredJobs, sortBy, sortOrder, searchValue,
                 debounceTimer, searchTimers, roleListWrap, displayNone,
                 currentJob, jobId>>

\* refreshJobs: loadJobs up to its fetch
refreshJobs ==
  /\ controller = "Unified"
  /\ BagCardinality(requests) < MaxInFlight
  /\ roleListWrap' = showLoading
  /\ loaderHidden' = FALSE
  /\ requests' = OneMore(requests, Request("jobs", "refresh", 0))
  /\ lastOp' = Op("refreshJobs", << >>)
  /\ UNCHANGED <<server, lastSelected, formVars, controller, jobs, filteredJobs, sortBy, sortOrder, searchValue,
                 debounceTimer, searchTimers, navVars, banners>>

\* JobSearchFilter.debounceSearch: the pending timer is cleared, a new one starts
debounceSearch ==
  LET live == searchTimers \ {debounceTimer}
      new  == CHOOSE i \in 1..(Cardinality(live) + 1) : i \notin live
  IN  /\ searchTimers' = live \cup {new}
      /\ debounceTimer' = new

\* the input listeners of the role-search field; the user has typed term
SearchInput(term) ==
  /\ Visible("roles")
  /\ searchValue' = term
  /\ debounceSearch
  /\ IF controller = "Enhanced"
       THEN /\ filteredJobs' = filterJobs(jobs, term)
            /\ roleListWrap' = renderJobList(filteredJobs')
            /\ lastOp' = Op("filterJobs", term)
       ELSE /\ UNCHANGED <<filteredJobs, roleListWrap>>
            /\ lastOp' = Op("input", term)
  /\ UNCHANGED <<server, lastSelected, formVars, controller, jobs, sortBy, sortOrder, loaderHidden, navVars,
                 requests, banners>>

\* the debounce timer t fires: filterJobs(target.value)
DebounceFire(t) ==
  /\ t \in searchTimers
  /\ searchTimers' = searchTimers \ {t}
  /\ filteredJobs' = filterJobs(jobs, searchValue)
  /\ roleListWrap' = renderJobList(filteredJobs')
  /\ lastOp' = Op("filterJobs", searchValue)
  /\ UNCHANGED <<server, lastSelected, formVars, controller, jobs, sortBy, sortOrder, searchValue, debounceTimer,
                 loaderHidden, navVars, requests, banners>>

\* clearSearch
clearSearch ==
  /\ controller = "Unified"
  /\ searchValue' = << >>
  /\ filteredJobs' = filterJobs(jobs, << >>)
  /\ roleListWrap' = renderJobList(filteredJobs')
  /\ lastOp' = Op("filterJobs", << >>)
  /\ UNCHANGED <<server, lastSelected, formVars, controller, jobs, sortBy, sortOrder, debounceTimer, searchTimers,
                 loaderHidden, navVars, requests, banners>>

\* click on the location sort control: toggleSort, sortJobs, renderJobList
ToggleSort ==
  /\ Visible("roles")
  /\ sortBy' = toggleSort(sortBy, sortOrder)[1]
  /\ sortOrder' = toggleSort(sortBy, sortOrder)[2]
  /\ filteredJobs' = sortJobs(filteredJobs, sortBy', sortOrder')
  /\ roleListWrap' = renderJobList(filteredJobs')
  /\ lastOp' = Op("toggleSort", [sortBy |-> sortBy, sortOrder |-> sortOrder,
                                 again |-> lastOp.name = "toggleSort"])
  /\ UNCHANGED <<server, lastSelected, formVars, controller, jobs, searchValue, debounceTimer, searchTimers,
                 loaderHidden, navVars, requests, banners>>

(***************************************************************************)
(* Navigation                                                              *)
(*                                                                         *)
(* A control is clicked only while the section that holds it is displayed: *)
(* the job buttons, the search field and the sort control in the listing,  *)
(* back-to-roles and to-application in the description, back-to-description*)
(* (and back-to-roles) in the application section.                         *)
(***************************************************************************)
\* click on the to-description button of job id: loadJobDetails up to its fetch
SelectJob(id) ==
  /\ Visible("roles")
  /\ roleListWrap.kind = "list"
  /\ \E i \in DOMAIN roleListWrap.items : roleListWrap.items[i] = id
  /\ BagCardinality(requests) < MaxInFlight
  /\ requests' = OneMore(requests, Request("details", "click", id))
  /\ lastOp' = Op("selectJob", id)
  /\ lastSelected' = id
  /\ UNCHANGED <<server, formVars, controller, listVars, navVars, banners>>

\* loadSpecificJobDetails (Unified) / loadJobDetails (JobListingManager) once the
\* response r is a success: currentJob, jobId, showJobDescription
loadSpecificJobDetails(r) ==
  /\ currentJob' = r.id
  /\ jobId' = IF controller = "Unified" THEN toString(r.id) ELSE jobId
  /\ showJobDescription(r.id)

DetailsLoaded(r) ==
  /\ BagIn(r, requests)
  /\ r.kind = "details"
  /\ requests' = OneLess(requests, r)
  /\ loadSpecificJobDetails(r)
  /\ lastOp' = Op("detailsLoaded", [origin |-> r.origin, id |-> r.id])
  /\ UNCHANGED <<server, lastSelected, formVars, controller, listVars, displayNone, banners>>

\* mutant of DetailsFailed: currentJob is assigned before the status is looked at
DetailsFailed_keepsJob(r) ==
  /\ BagIn(r, requests)
  /\ r.kind = "details"
  /\ requests' = OneLess(requests, r)
  /\ currentJob' = r.id
  /\ CASE r.origin = "click" ->
            /\ showError("Failed to load job details")
            /\ UNCHANGED <<hide, history, cursor>>
       [] r.origin = "init" ->
            /\ showError("Failed to load job")
            /\ showRolesSection(cursor)
       [] r.origin = "nav" ->
            /\ showRolesSection(cursor)
            /\ UNCHANGED banners
  /\ lastOp' = Op("detailsFailed", [origin |-> r.origin, id |-> r.id])
  /\ lastSelected' = IF r.origin = "click" /\ r.id = lastSelected THEN 0 ELSE lastSelected
  /\ UNCHANGED <<server, formVars, controller, listVars, displayNone, jobId>>

\* the catch blocks of loadJobDetails, handleInitialJobLoad and
\* handleBrowserNavigation: the job-detail fetch of r failed
DetailsFailed(r) ==
  /\ BagIn(r, requests)
  /\ r.kind = "details"
  /\ requests' = OneLess(requests, r)
  /\ CASE r.origin = "click" ->
            /\ showError("Failed to load job details")
            /\ UNCHANGED <<hide, history, cursor>>
       [] r.origin = "init" ->
            /\ showError("Failed to load job")
            /\ showRolesSection(cursor)
       [] r.origin = "nav" ->
            /\ showRolesSection(cursor)
            /\ UNCHANGED banners
  /\ lastOp' = Op("detailsFailed", [origin |-> r.origin, id |-> r.id])
  /\ lastSelected' = IF r.origin = "click" /\ r.id = lastSelected THEN 0 ELSE lastSelected
  /\ UNCHANGED <<server, formVars, controller, listVars, displayNone, currentJob, jobId>>

\* click on back-to-roles
BackToRoles ==
  /\ Visible("description") \/ Visible("application")
  /\ showRolesSection(cursor)
  /\ lastOp' = Op("back", << >>)
  /\ UNCHANGED <<server, lastSelected, formVars, controller, listVars, displayNone, currentJob, jobId, requests,
                 banners>>

\* click on back-to-description
BackToDescription ==
  /\ controller = "Unified"
  /\ Visible("application")
  /\ showJobDescription(currentJob)
  /\ lastOp' = Op("backToDescription", << >>)
  /\ UNCHANGED <<server, lastSelected, formVars, controller, listVars, displayNone, currentJob, jobId, requests,
                 banners>>

\* click on to-application-section (the listener of JobListingManager is empty)
ToApplication ==
  /\ controller = "Unified"
  /\ Visible("description")
  /\ showApplicationSection
  /\ lastOp' = Op("apply", << >>)
  /\ UNCHANGED <<server, lastSelected, formVars, controller, listVars, displayNone, currentJob, jobId, requests,
                 banners>>

\* keydown Escape
Escape ==
  /\ IF controller = "Unified"
       THEN /\ showRolesSection(cursor)
            /\ UNCHANGED displayNone
       ELSE /\ hideAllSections
            /\ UNCHANGED <<hide, history, cursor>>
  /\ lastOp' = Op("escape", << >>)
  /\ UNCHANGED <<server, lastSelected, formVars, controller, listVars, currentJob, jobId, requests, banners>>

\* handleBrowserNavigation: the tab has moved to history entry target, the
\* popstate event carries that entry's state
handleBrowserNavigation(target) ==
  LET urlJobId == getJobIdFromURL(target)
      state    == history[target].state
  IN  IF urlJobId # "" /\ state # 0
        THEN /\ cursor' = target
             /\ UNCHANGED <<hide, history>>
             /\ IF ~isNaN(parseInt(urlJobId))
                  THEN /\ BagCardinality(requests) < MaxInFlight
                       /\ requests' = OneMore(requests,
                              Request("details", "nav", parseInt(urlJobId)))
                  ELSE UNCHANGED requests
        ELSE /\ showRolesSection(target)
             /\ UNCHANGED requests

\* the browser's back (target = cursor - 1) or forward (cursor + 1) button
PopState(target) ==
  /\ controller = "Unified"
  /\ target \in DOMAIN history
  /\ target \in {cursor - 1, cursor + 1}
  /\ handleBrowserNavigation(target)
  /\ lastOp' = Op("popstate", [url |-> history[target].url,
                               state |-> history[target].state])
  /\ UNCHANGED <<server, lastSelected, formVars, controller, listVars, displayNone, currentJob, jobId, banners>>

\* the auto-dismiss timer of banner element el fires: el.remove()
BannerTimeout(el) ==
  /\ BagIn(el, banners)
  /\ banners' = OneLess(banners, el)
  /\ lastOp' = Op("bannerTimeout", el.kind)
  /\ UNCHANGED <<server, lastSelected, formVars, controller, listVars, navVars, requests>>

(***************************************************************************)
(* Application form: validators                                            *)
(*                                                                         *)
(* Three form scripts are modelled (variable formScript):                  *)
(*   "Unified" - the form part of UnifiedJobApplicationSystem              *)
(*   "Resume"  - class JobApplicationForm of resume-form.ts                *)
(*   "Basic"   - class JobApplicationForm of form.ts                       *)
(* A message is a string, a field value a sequence of characters.          *)
(***************************************************************************)
\* the regular expression [^\s@]+ : one character or more, none a space or an @
NoSpaceNoAt(s) == Len(s) > 0 /\ \A i \in DOMAIN s : ~IsSpace(s[i]) /\ s[i] # "@"

\* JobApplicationValidator.validateEmail: /^[^\s@]+@[^\s@]+\.[^\s@]+$/
validateEmail(email) ==
  \E p, q \in DOMAIN email :
    /\ email[p] = "@"
    /\ email[q] = "."
    /\ p < q
    /\ NoSpaceNoAt(SubSeq(email, 1, p - 1))
    /\ NoSpaceNoAt(SubSeq(email, p + 1, q - 1))
    /\ NoSpaceNoAt(SubSeq(email, q + 1, Len(email)))

\* s begins with prefix, letter case ignored, and at least one character follows
BeginsWith(s, prefix) ==
  /\ Len(s) > Len(prefix)
  /\ toLowerCase(SubSeq(s, 1, Len(prefix))) = prefix

httpText  == <<"h","t","t","p">>
slashes   == <<":","/","/">>
wwwText   == <<"w","w","w",".">>
linkedin  == <<"l","i","n","k","e","d","i","n",".","c","o","m","/">>

\* JobApplicationValidator.validateLinkedInUrl:
\* /^https?:\/\/(www\.)?linkedin\.com\/.+/i, an empty value passes
validateLinkedInUrl(url) ==
  \/ url = << >>
  \/ \E scheme \in {httpText, httpText \o <<"s">>}, www \in {<< >>, wwwText} :
       BeginsWith(url, scheme \o slashes \o www \o linkedin)

\* Array.prototype.join(". ")
RECURSIVE join(_)
join(errors) ==
  IF errors = << >> THEN ""
  ELSE IF Len(errors) = 1 THEN errors[1]
  ELSE errors[1] \o ". " \o join(Tail(errors))

\* errors.push(message) when the condition holds
PushIf(cond, message) == IF cond THEN <<message>> ELSE << >>

\* mutant of validateForm: the email is not looked at
validateForm_noEmail(data, script) ==
     PushIf(trim(data.firstName) = << >>, "First name is required")
  \o PushIf(trim(data.lastName) = << >>, "Last name is required")
  \o PushIf(trim(data.phoneNumber) = << >>, "Phone number is required")
  \o PushIf(data.linkedinUrl # << >> /\ ~validateLinkedInUrl(data.linkedinUrl),
            "Please enter a valid LinkedIn URL")
  \o PushIf(script = "Unified" /\ ~data.consent,
            "You must consent to be contacted about job opportunities")

\* JobApplicationValidator.validateForm of part_003 (script = "Unified") and of
\* resume-form.ts (script = "Resume"): the error messages, in order
validateForm(data, script) ==
     PushIf(trim(data.firstName) = << >>, "First name is required")
  \o PushIf(trim(data.lastName) = << >>, "Last name is required")
  \o (IF trim(data.email) = << >>
        THEN <<"Email is required">>
        ELSE PushIf(~validateEmail(data.email), "Please enter a valid email address"))
  \o PushIf(trim(data.phoneNumber) = << >>, "Phone number is required")
  \o PushIf(data.linkedinUrl # << >> /\ ~validateLinkedInUrl(data.linkedinUrl),
            "Please enter a valid LinkedIn URL")
  \o PushIf(script = "Unified" /\ ~data.consent,
            "You must consent to be contacted about job opportunities")

\* validateFormData of form.ts: the [required] fields of the page are taken to
\* be the four text inputs, named by their data-name
validateBasic(data) ==
     PushIf(trim(data.firstName) = << >>, "First Name is required")
  \o PushIf(trim(data.lastName) = << >>, "Last Name is required")
  \o PushIf(trim(data.email) = << >>, "Email is required")
  \o PushIf(trim(data.phoneNumber) = << >>, "Phone Number is required")
  \o PushIf(data.email # << >> /\ ~validateEmail(data.email),
            "Please enter a valid email address")
  \o PushIf(data.linkedinUrl # << >> /\ ~validateLinkedInUrl(data.linkedinUrl),
            "Please enter a valid LinkedIn URL")

\* validateFormData: the messages of the validator, then the resume check
validateFormData(data, resume, script) ==
     (IF script = "Basic" THEN validateBasic(data) ELSE validateForm(data, script))
  \o PushIf(resume = NoFile, "Please upload your resume")

ALLOWED_FILE_TYPES ==
  {"application/pdf", "application/msword",
   "application/vnd.openxmlformats-officedocument.wordprocessingml.document",
   "text/plain"}

MAX_FILE_SIZE == 5 * 1024 * 1024

\* FileValidator.validateFile: the error messages
validateFile(file) ==
     PushIf(file.type \notin ALLOWED_FILE_TYPES, "Please upload a PDF, DOC, DOCX, or TXT file")
  \o PushIf(file.size > MAX_FILE_SIZE, "File size must be less than 5MB")

(***************************************************************************)
(* Application form: files, submission, messages                           *)
(*                                                                         *)
(* A file input sits inside its upload control, so a file is chosen only   *)
(* while that control is displayed; the Resume and cover_letter inputs     *)
(* take one file, the additional-files input has the attribute multiple.   *)
(* The handlers that run several calls in a row are computed on a record   *)
(* st of the values they work on, which Commit then writes back.           *)
(***************************************************************************)
Cur ==
  [resume |-> uploadedResumeFile, cover |-> uploadedCoverLetterFile,
   additional |-> uploadedAdditionalFiles, tokens |-> fileTokens,
   hidden |-> uploadHidden, banners |-> banners, wm |-> wMessages, wt |-> wTimers]

Commit(st) ==
  /\ uploadedResumeFile' = st.resume
  /\ uploadedCoverLetterFile' = st.cover
  /\ uploadedAdditionalFiles' = st.additional
  /\ fileTokens' = st.tokens
  /\ uploadHidden' = st.hidden
  /\ BagCardinality(st.banners) <= MaxTimers
  /\ banners' = st.banners
  /\ BagCardinality(st.wt) <= MaxTimers
  /\ wMessages' = st.wm
  /\ wTimers' = st.wt

\* the form can be used: its section is on display and it is not hidden
FormVisible ==
  CASE formScript = "Unified" -> Visible("application")
    [] formScript = "Resume"  -> ~formHidden
    [] OTHER                  -> TRUE

\* showError of the three form scripts: part_003 puts a new element into the
\* section on display, resume-form.ts puts one behind the form, form.ts writes
\* the text into the page's failure block; each starts a timer
showErrorIn(st, message) ==
  CASE formScript = "Unified" ->
         [st EXCEPT !.banners = RemoveKind(@, "error")
                       (+) SetToBag({Banner("error", message, getCurrentVisibleSection)})]
    [] formScript = "Resume" ->
         [st EXCEPT !.banners = RemoveKind(@, "error")
                       (+) SetToBag({Banner("error", message, "form")})]
    [] OTHER ->
         [st EXCEPT !.wm = [done |-> FALSE, fail |-> TRUE, text |-> message],
                    !.wt = @ (+) SetToBag({"fail"})]

\* showSuccess of the three form scripts
showSuccessIn(st) ==
  CASE formScript = "Unified" ->
         [st EXCEPT !.banners = RemoveKind(@, "success")
                       (+) SetToBag({Banner("success", "Application submitted successfully!",
                                            getCurrentVisibleSection)})]
    [] formScript = "Resume" ->
         [st EXCEPT !.banners = @ (+) SetToBag({Banner("success", "form-success", "form")})]
    [] OTHER ->
         [st EXCEPT !.wm = [done |-> TRUE, fail |-> FALSE, text |-> @.text],
                    !.wt = @ (+) SetToBag({"done"})]

\* an error message is before the visitor's eyes
ErrorShown ==
  \/ \E b \in BagToSet(banners) :
       /\ b.kind = "error"
       /\ b.attached
       /\ (b.parent = "form" \/ Visible(b.parent))
  \/ wMessages.fail

\* the text of the error message that is shown ("" when there is none)
ErrorText ==
  IF wMessages.fail THEN wMessages.text
  ELSE IF \E b \in BagToSet(banners) : b.kind = "error" /\ b.attached
    THEN (CHOOSE b \in BagToSet(banners) : b.kind = "error" /\ b.attached).msg
    ELSE ""

\* mutant of hasRoom: no limit
hasRoom_noCap(list) == TRUE

\* handleFileUpload of resume-form.ts: uploadedAdditionalFiles.length < 3
hasRoom(list) == Len(list) < 3

\* displayUploadedFile: the upload control is hidden unless the input takes
\* several files and fewer than three are pending; a token is appended
displayUploadedFile(st, input, file) ==
  LET hasMultiple == formScript = "Resume" /\ input = "additional"
  IN  [st EXCEPT !.hidden[input] = ~(hasMultiple /\ Len(st.additional) < 3),
                 !.tokens[input] = Append(@, file)]

\* handleFileUpload
handleFileUpload(st, input, file) ==
  IF validateFile(file) # << >>
    THEN showErrorIn(st, join(validateFile(file)))
  ELSE IF formScript # "Resume" \/ input = "Resume"
    THEN displayUploadedFile([st EXCEPT !.resume = file], input, file)
  ELSE IF input = "cover_letter"
    THEN displayUploadedFile([st EXCEPT !.cover = file], input, file)
  ELSE IF hasRoom(st.additional)
    THEN displayUploadedFile(
           [st EXCEPT !.additional = Append(@, file),
                      !.hidden[input] = IF Len(st.additional) + 1 = 3 THEN TRUE ELSE @],
           input, file)
  ELSE showErrorIn(st, "You can only upload up to 3 additional files.")

\* forEach(file => handleFileUpload(...))
RECURSIVE uploadEach(_, _, _)
uploadEach(st, input, files) ==
  IF files = << >> THEN st
  ELSE uploadEach(handleFileUpload(st, input, Head(files)), input, Tail(files))

\* handleFileInputChange: resume-form.ts takes the first three files of the
\* selection, the other two scripts the first one
handleFileInputChange(st, input, files) ==
  IF formScript = "Resume"
    THEN uploadEach(st, input, SubSeq(files, 1, IF Len(files) < 3 THEN Len(files) ELSE 3))
    ELSE uploadEach(st, input, SubSeq(files, 1, 1))

\* File objects are told apart by id among those chosen through the same
\* input; these are the ones in use, a selection brings objects that are none
\* of them
FilesInUse(input) ==
  {fileTokens[input][i].id : i \in DOMAIN fileTokens[input]}
    \cup (IF input = "additional"
            THEN {uploadedAdditionalFiles[i].id : i \in DOMAIN uploadedAdditionalFiles}
          ELSE IF input = "Resume" THEN {uploadedResumeFile.id}
          ELSE {uploadedCoverLetterFile.id})

\* the k-th natural number above 0 that is not in S
RECURSIVE Fresh(_, _)
Fresh(S, k) ==
  LET least == CHOOSE n \in 1..(Cardinality(S) + 1) : n \notin S
  IN  IF k = 1 THEN least ELSE Fresh(S \cup {least}, k - 1)

\* the FileList of a change event: new File objects of the kinds chosen
FileList(input, kinds) ==
  [i \in DOMAIN kinds |->
     [id |-> Fresh(FilesInUse(input), i), type |-> kinds[i].type, size |-> kinds[i].size]]

(***************************************************************************)
(* Application form: handlers                                              *)
(***************************************************************************)
\* the visitor edits the fields of the form
FillForm(data) ==
  /\ formScript # "None"
  /\ FormVisible
  /\ formFields' = data
  /\ lastOp' = Op("fill", << >>)
  /\ UNCHANGED <<server, lastSelected, controller, listVars, navVars, requests, banners, formScript,
                 uploadedResumeFile, uploadedCoverLetterFile, uploadedAdditionalFiles,
                 fileTokens, uploadHidden, formHidden, submitDisabled, submitValue, applyRequests,
                 wMessages, wTimers>>

\* change event of a file input: the visitor has chosen files of these kinds
ChooseFiles(input, kinds) ==
  /\ formScript # "None"
  /\ FormVisible
  /\ ~uploadHidden[input]
  /\ formScript # "Resume" => input = "Resume"
  /\ input # "additional" => Len(kinds) = 1
  /\ Commit(handleFileInputChange(Cur, input, FileList(input, kinds)))
  /\ lastOp' = Op("change", [input |-> input, files |-> FileList(input, kinds)])
  /\ UNCHANGED <<server, lastSelected, controller, listVars, navVars, requests, formScript, formFields,
                 formHidden, submitDisabled, submitValue, applyRequests>>

\* the sequence s without its i-th element
RemoveAt(s, i) == SubSeq(s, 1, i - 1) \o SubSeq(s, i + 1, Len(s))

\* Array.prototype.filter(file => file !== userFile)
Without(list, userFile) ==
  LET Other(file) == file # userFile IN SelectSeq(list, Other)

\* removeUploadedFile, from a click on the remove button of the i-th token of
\* input: resume-form.ts removes that token and clears the slot of the input,
\* the other two scripts remove the first token of the document and the file
removeUploadedFile(st, input, i) ==
  IF formScript = "Resume"
    THEN [st EXCEPT
            !.tokens[input] = RemoveAt(@, i),
            !.hidden[input] = FALSE,
            !.resume = IF input = "Resume" THEN NoFile ELSE @,
            !.cover = IF input = "cover_letter" THEN NoFile ELSE @,
            !.additional = IF input = "additional"
                             THEN Without(@, st.tokens[input][i]) ELSE @]
    ELSE [st EXCEPT !.tokens["Resume"] = IF @ = << >> THEN @ ELSE Tail(@),
                    !.hidden["Resume"] = FALSE,
                    !.resume = NoFile]

RemoveToken(input, i) ==
  /\ formScript # "None"
  /\ FormVisible
  /\ i \in DOMAIN fileTokens[input]
  /\ Commit(removeUploadedFile(Cur, input, i))
  /\ lastOp' = Op("removeFile", [input |-> input, file |-> fileTokens[input][i]])
  /\ UNCHANGED <<server, lastSelected, controller, listVars, navVars, requests, formScript, formFields,
                 formHidden, submitDisabled, submitValue, applyRequests>>

\* mutant of setLoadingState: the label is left as it is
setLoadingState_keepsLabel(isLoading) ==
  [value |-> submitValue, disabled |-> isLoading]

\* mutant of setLoadingState: the button is never disabled
setLoadingState_neverDisables(isLoading) ==
  [value |-> IF isLoading THEN "Applying..." ELSE originalButtonText,
   disabled |-> FALSE]

\* setLoadingState: the label and the disabled flag of the submit button
setLoadingState(isLoading) ==
  [value |-> IF isLoading THEN "Applying..." ELSE originalButtonText,
   disabled |-> isLoading]

\* the POST of submitForm: where it goes, the text fields and the resume of
\* its multipart body (the other parts of the body are left out)
ApplyRequest ==
  [url |-> IF formScript = "Resume" THEN "people" ELSE jobId,
   data |-> formFields,
   resume |-> uploadedResumeFile]

\* handleFormSubmit up to the fetch of submitForm; the submit event comes from
\* the submit button, which is not disabled
Submit ==
  LET errors == validateFormData(formFields, uploadedResumeFile, formScript)
  IN  /\ formScript # "None"
      /\ FormVisible
      /\ ~submitDisabled
      /\ IF errors # << >>
           THEN /\ Commit(showErrorIn(Cur, join(errors)))
                /\ UNCHANGED <<submitDisabled, submitValue, applyRequests>>
         ELSE IF formScript # "Resume" /\ jobId = ""
           THEN /\ Commit(showErrorIn(Cur, IF formScript = "Unified"
                                             THEN "Job ID not found"
                                             ELSE "Job ID not found in URL"))
                /\ UNCHANGED <<submitDisabled, submitValue, applyRequests>>
         ELSE /\ Commit(Cur)
              /\ submitDisabled' = setLoadingState(TRUE).disabled
              /\ submitValue' = setLoadingState(TRUE).value
              /\ applyRequests' = OneMore(applyRequests, ApplyRequest)
      /\ lastOp' = Op("submit", << >>)
      /\ UNCHANGED <<server, lastSelected, controller, listVars, navVars, requests, formScript, formFields,
                     formHidden>>

\* mutant of handleSuccessfulSubmission: the tokens stay in the page
handleSuccessfulSubmission_keepsTokens(st) ==
  [showSuccessIn(st) EXCEPT !.resume = NoFile, !.cover = NoFile, !.additional = << >>]

\* handleSuccessfulSubmission: showSuccess, form.reset(), the files are dropped
handleSuccessfulSubmission(st) ==
  IF formScript = "Resume"
    THEN [showSuccessIn(st) EXCEPT
            !.hidden = [input \in FileInputs |-> FALSE],
            !.resume = NoFile, !.cover = NoFile, !.additional = << >>,
            !.tokens = [input \in FileInputs |-> << >>]]
    ELSE removeUploadedFile(showSuccessIn(st), "Resume", 1)

\* submitForm from the response on: the status is a success and the body says so
SubmitSucceeded(r) ==
  /\ BagIn(r, applyRequests)
  /\ applyRequests' = OneLess(applyRequests, r)
  /\ Commit(handleSuccessfulSubmission(Cur))
  /\ formFields' = EmptyForm
  /\ formHidden' = IF formScript = "Resume" THEN TRUE ELSE formHidden
  /\ submitDisabled' = setLoadingState(FALSE).disabled
  /\ submitValue' = setLoadingState(FALSE).value
  /\ lastOp' = Op("submitSucceeded", << >>)
  /\ UNCHANGED <<server, lastSelected, controller, listVars, navVars, requests, formScript>>

\* submitForm from the response on: the fetch fails, the body cannot be parsed,
\* or it reports a failure
SubmitFailed(r) ==
  /\ BagIn(r, applyRequests)
  /\ applyRequests' = OneLess(applyRequests, r)
  /\ Commit(showErrorIn(Cur, "Failed to submit application. Please try again."))
  /\ submitDisabled' = setLoadingState(FALSE).disabled
  /\ submitValue' = setLoadingState(FALSE).value
  /\ lastOp' = Op("submitFailed", << >>)
  /\ UNCHANGED <<server, lastSelected, controller, listVars, navVars, requests, formScript, formFields,
                 formHidden>>

\* reinitialize: the pending files are forgotten, the job id is read again from
\* the address (part_003, form.ts), setupInitialState hides the page's blocks
reinitialize ==
  /\ formScript # "None"
  /\ Len(fileTokens["Resume"]) + Len(fileTokens["cover_letter"])
       + Len(fileTokens["additional"]) <= MaxStale
  /\ uploadedResumeFile' = NoFile
  /\ uploadedCoverLetterFile' = IF formScript = "Resume" THEN NoFile
                                                           ELSE uploadedCoverLetterFile
  /\ uploadedAdditionalFiles' =
       IF formScript = "Resume" THEN << >> ELSE uploadedAdditionalFiles
  /\ jobId' = IF formScript = "Resume" THEN jobId ELSE getJobIdFromURL(cursor)
  /\ wMessages' = IF formScript = "Basic"
                    THEN [wMessages EXCEPT !.done = FALSE, !.fail = FALSE]
                    ELSE wMessages
  /\ lastOp' = Op("reinitialize", << >>)
  /\ UNCHANGED <<server, lastSelected, controller, listVars, hide, displayNone, currentJob, history, cursor,
                 requests, banners, formScript, formFields, fileTokens, uploadHidden,
                 formHidden, submitDisabled, submitValue, applyRequests, wTimers>>

\* the success element cloned by showSuccess of resume-form.ts
IsSuccessClone(el) == el.kind = "success" /\ el.parent = "form"

\* the timer of showSuccess of resume-form.ts fires: the clone goes, the form
\* is shown again
SuccessTimeout(el) ==
  /\ BagIn(el, banners)
  /\ IsSuccessClone(el)
  /\ banners' = OneLess(banners, el)
  /\ formHidden' = FALSE
  /\ lastOp' = Op("bannerTimeout", el.kind)
  /\ UNCHANGED <<server, lastSelected, controller, listVars, navVars, requests, formScript, formFields,
                 uploadedResumeFile, uploadedCoverLetterFile, uploadedAdditionalFiles,
                 fileTokens, uploadHidden, submitDisabled, submitValue, applyRequests, wMessages,
                 wTimers>>

\* a timer of showSuccess ("done") or showError ("fail") of form.ts fires: the
\* block is hidden
MessageTimeout(block) ==
  /\ BagIn(block, wTimers)
  /\ wTimers' = OneLess(wTimers, block)
  /\ wMessages' = IF block = "done" THEN [wMessages EXCEPT !.done = FALSE]
                                    ELSE [wMessages EXCEPT !.fail = FALSE]
  /\ lastOp' = Op("bannerTimeout", block)
  /\ UNCHANGED <<server, lastSelected, controller, listVars, navVars, requests, banners, formScript,
                 formFields, uploadedResumeFile, uploadedCoverLetterFile,
                 uploadedAdditionalFiles, fileTokens, uploadHidden, formHidden,
                 submitDisabled, submitValue, applyRequests>>

(***************************************************************************)
(* Specifications                                                          *)
(*                                                                         *)
(* Spec is the page with every handler.  The list handlers write only the  *)
(* list variables and the navigation handlers only the navigation          *)
(* variables, so the two groups are explored apart:                        *)
(*   SpecList - loads, refreshes, searches and sorts, the visitor staying  *)
(*              in the listing;                                            *)
(*   SpecNav  - selections, back, apply, Escape and popstate over one      *)
(*              loaded list.                                               *)
(***************************************************************************)
\* the bodies the listing endpoint answers with
Listings == {<<Job1, Job2>>, <<Job2, Job3, Job1>>, <<Job4, Job3, Job2, Job1>>, << >>}

\* what the visitor types into the search field
Terms == {<< >>, <<" ">>, leedsLow, <<" ", "L", "E", "E", "D", "S", " ">>,
          toLowerCase(Acme), <<"z", "z">>, <<"e", "r">>}

\* the jobId parameter of the address the page is opened with
Urls == {"", "1", "abc"}

LoadStep(lists) ==
  \/ \E r \in BagToSet(requests), list \in lists : JobsLoaded(r, list)
  \/ \E r \in BagToSet(requests) : JobsFailed(r)
  \/ \E el \in BagToSet(banners) : BannerTimeout(el)

ListStep(lists, terms) ==
  \/ LoadStep(lists)
  \/ refreshJobs
  \/ \E term \in terms : SearchInput(term)
  \/ \E t \in searchTimers : DebounceFire(t)
  \/ clearSearch
  \/ ToggleSort

NavStep(lists) ==
  \/ LoadStep(lists)
  \/ \E id \in DOMAIN IdText : SelectJob(id)
  \/ \E r \in BagToSet(requests) : DetailsLoaded(r)
  \/ \E r \in BagToSet(requests) : DetailsFailed(r)
  \/ BackToRoles
  \/ BackToDescription
  \/ ToApplication
  \/ Escape
  \/ \E target \in DOMAIN history : PopState(target)

Init == InitWith(Urls)

Next == ListStep(Listings, Terms) \/ NavStep(Listings)

Spec == Init /\ [][Next]_vars

InitList == InitWith({""})

NextList == ListStep(Listings, Terms)

SpecList == InitList /\ [][NextList]_vars

InitNav == InitWith(Urls)

NextNav == NavStep({<<Job1, Job2>>})

SpecNav == InitNav /\ [][NextNav]_vars

\* The job browser on a page with or without the elements of the form
InitPage == InitWith({""}) \/ InitWithout(Urls)

SpecPage == InitPage /\ [][NextNav]_vars

(***************************************************************************)
(* Specification of the application form                                   *)
(*                                                                         *)
(* The form is that of one of the three scripts; SpecFiles explores the    *)
(* file selections with one application typed in, SpecSubmit the           *)
(* applications with one resume to choose.  The unified                    *)
(* controller starts with the application section just opened for job 1,   *)
(* a state of SpecNav; the two stand-alone forms start as constructed, on  *)
(* a page opened with or without a jobId in its address.                   *)
(***************************************************************************)
Al          == <<"A", "l">>
Spaces      == <<" ", " ">>
Phone       == <<"0", "7">>
GoodEmail   == <<"a", "@", "b", ".", "c">>
BadEmails   == {<<"a", "@", "b">>, <<"@", "b", ".", "c">>, <<"a", "@", "@", "b", ".", "c">>,
                <<"a", "@", "b", ".">>}
GoodLinkedin == httpText \o <<"S">> \o slashes \o wwwText \o linkedin \o <<"x">>
BadLinkedins == {<<"x">>, httpText \o slashes \o linkedin}

ValidApplication ==
  [firstName |-> Al, lastName |-> Al, email |-> GoodEmail, phoneNumber |-> Phone,
   linkedinUrl |-> << >>, consent |-> TRUE]

\* what the visitor may have typed when a handler runs
Applications ==
  {ValidApplication, [EmptyForm EXCEPT !.email = <<"a", "@", "b">>]}
    \cup {[ValidApplication EXCEPT !.firstName = Spaces]}
    \cup {[ValidApplication EXCEPT !.lastName = << >>]}
    \cup {[ValidApplication EXCEPT !.email = v] : v \in {Spaces} \cup BadEmails}
    \cup {[ValidApplication EXCEPT !.phoneNumber = << >>]}
    \cup {[ValidApplication EXCEPT !.linkedinUrl = v] : v \in {GoodLinkedin} \cup BadLinkedins}
    \cup {[ValidApplication EXCEPT !.consent = FALSE]}

pdfLimit == [type |-> "application/pdf", size |-> MAX_FILE_SIZE]
txtSmall == [type |-> "text/plain", size |-> 1]
pdfOver  == [type |-> "application/pdf", size |-> MAX_FILE_SIZE + 1]
exeSmall == [type |-> "application/x-msdownload", size |-> 1]
exeOver  == [type |-> "application/x-msdownload", size |-> MAX_FILE_SIZE + 1]

\* the selections a change event of each input may bring
Selections ==
  [input \in FileInputs |->
     CASE input = "Resume" ->
            {<<pdfLimit>>, <<pdfOver>>, <<exeSmall>>}
       [] input = "cover_letter" -> {<<txtSmall>>, <<exeSmall>>}
       [] OTHER ->
            {<<txtSmall>>, <<exeOver>>, <<exeSmall, txtSmall, pdfOver>>,
             <<txtSmall, txtSmall, txtSmall, txtSmall>>,
             <<txtSmall, txtSmall, txtSmall, exeSmall>>}]

\* one resume to choose, or a file that is refused
OneResume ==
  [input \in FileInputs |-> {<<pdfLimit>>, <<exeOver>>}]

\* the application section of the unified controller, just opened for job 1
ApplicationOpen ==
  /\ controller = "Unified"
  /\ jobs = <<Job1, Job2>>
  /\ filteredJobs = <<Job1, Job2>>
  /\ sortBy = "title"
  /\ sortOrder = "asc"
  /\ searchValue = << >>
  /\ debounceTimer = 0
  /\ searchTimers = {}
  /\ roleListWrap = renderJobList(<<Job1, Job2>>)
  /\ loaderHidden = TRUE
  /\ hide = [s \in Sections |-> s # "application"]
  /\ displayNone = [s \in Sections |-> FALSE]
  /\ currentJob = 1
  /\ jobId = "1"
  /\ history = <<[url |-> "", state |-> 0], [url |-> "1", state |-> 1],
                 [url |-> "1", state |-> 1]>>
  /\ cursor = 3
  /\ requests = EmptyBag
  /\ banners = EmptyBag
  /\ lastOp = Op("apply", << >>)
  /\ FormConstructed("Unified")
  /\ lastSelected = 1
  /\ server = ServerStarted(Secret)

\* a page that holds a stand-alone form and no job browser
StandAlone(script, urls) ==
  /\ controller = "None"
  /\ jobs = << >>
  /\ filteredJobs = << >>
  /\ sortBy = "title"
  /\ sortOrder = "asc"
  /\ searchValue = << >>
  /\ debounceTimer = 0
  /\ searchTimers = {}
  /\ roleListWrap = showLoading
  /\ loaderHidden = FALSE
  /\ hide = [s \in Sections |-> s # "roles"]
  /\ displayNone = [s \in Sections |-> FALSE]
  /\ currentJob = 0
  /\ \E u \in urls :
       /\ history = <<[url |-> u, state |-> 0]>>
       /\ jobId = IF script = "Basic" THEN u ELSE ""
  /\ cursor = 1
  /\ requests = EmptyBag
  /\ banners = EmptyBag
  /\ lastOp = Op("constructor", << >>)
  /\ FormConstructed(script)
  /\ lastSelected = 0

FormPage(script, urls) ==
  /\ StandAlone(script, urls)
  /\ server = ServerStarted(Secret)

FormStep(apps, inputs, selections) ==
  \/ \E data \in apps : FillForm(data)
  \/ \E input \in inputs : \E kinds \in selections[input] : ChooseFiles(input, kinds)
  \/ \E input \in FileInputs : \E i \in DOMAIN fileTokens[input] : RemoveToken(input, i)
  \/ Submit
  \/ \E r \in BagToSet(applyRequests) : SubmitSucceeded(r)
  \/ \E r \in BagToSet(applyRequests) : SubmitFailed(r)
  \/ reinitialize
  \/ \E el \in {b \in BagToSet(banners) : ~IsSuccessClone(b)} : BannerTimeout(el)
  \/ \E el \in BagToSet(banners) : SuccessTimeout(el)
  \/ \E block \in BagToSet(wTimers) : MessageTimeout(block)

InitForm ==
  \/ ApplicationOpen
  \/ FormPage("Resume", {""})
  \/ FormPage("Basic", {"", "1"})

NextFiles == FormStep({ValidApplication}, FileInputs, Selections)

SpecFiles == InitForm /\ [][NextFiles]_vars

NextSubmit == FormStep(Applications, {"Resume"}, OneResume)

SpecSubmit == InitForm /\ [][NextSubmit]_vars

\* The same with one application only, and fairness: a fetch settles and a
\* timer fires.  The response is handled whenever it comes; the model holds it
\* back only while MaxTimers timers are pending, hence strong fairness.
NextApply == FormStep({ValidApplication}, {"Resume"}, OneResume)

Settles ==
  \E r \in BagToSet(applyRequests) : SubmitSucceeded(r) \/ SubmitFailed(r)

TimerFires_form ==
  \/ \E el \in {b \in BagToSet(banners) : ~IsSuccessClone(b)} : BannerTimeout(el)
  \/ \E el \in BagToSet(banners) : SuccessTimeout(el)
  \/ \E block \in BagToSet(wTimers) : MessageTimeout(block)

SpecApply ==
  InitForm /\ [][NextApply]_vars /\ SF_vars(Settles) /\ WF_vars(TimerFires_form)

\* The form together with what else raises banners in the unified controller:
\* job-list fetches that fail, and the way back to the description, which
\* moves the place where a banner is put.
NextBanners ==
  \/ FormStep({ValidApplication}, {"Resume"}, OneResume)
  \/ refreshJobs
  \/ \E r \in BagToSet(requests) : JobsLoaded(r, <<Job1, Job2>>)
  \/ \E r \in BagToSet(requests) : JobsFailed(r)
  \/ BackToDescription

SpecBanners == InitForm /\ [][NextBanners]_vars

\* The job browser of the unified controller, opened with a jobId in the
\* address, together with the form of its application section up to the POST:
\* one application to type, one resume to choose, submit and reinitialize
NextBrowse ==
  \/ NavStep({<<Job1, Job2>>})
  \/ FillForm(ValidApplication)
  \/ ChooseFiles("Resume", <<pdfLimit>>)
  \/ Submit
  \/ reinitialize

SpecBrowse == InitWith({"1"}) /\ [][NextBrowse]_vars

(***************************************************************************)
(* Server routes                                                           *)
(*                                                                         *)
(* Four route handlers: the RSS feed in its two versions ("feed" of        *)
(* part_000 and "feedById" of part_001) and the apply route in its two     *)
(* versions ("apply" and "applyPlain" of part_001).  A handler runs up to  *)
(* its fetch, and again from the settling of that fetch to its return.     *)
(***************************************************************************)
FeedRoutes  == {"feed", "feedById"}
ApplyRoutes == {"apply", "applyPlain"}

\* the values of a multipart body, and null
Null        == [kind |-> "null", text |-> << >>, file |-> NoFile]
Text(t)     == [kind |-> "text", text |-> t, file |-> NoFile]
FilePart(f) == [kind |-> "file", text |-> << >>, file |-> f]

\* the keys a multipart body of this program may hold
Keys ==
  {"First-Name", "Last-Name", "Email", "Phone-Number", "Linkedin-URL", "Resume",
   "email", "name", "phone", "resume"}

\* submitForm: the multipart body of the POST; a key that was not appended has
\* no value, which is what FormData.get answers with null
formDataObj(data, resume) ==
  [key \in Keys |->
     CASE key = "First-Name"   -> Text(data.firstName)
       [] key = "Last-Name"    -> Text(data.lastName)
       [] key = "Email"        -> Text(data.email)
       [] key = "Phone-Number" -> Text(data.phoneNumber)
       [] key = "Linkedin-URL" -> Text(data.linkedinUrl)
       [] key = "Resume"       -> IF resume # NoFile THEN FilePart(resume) ELSE Null
       [] OTHER                -> Null]

\* the text JavaScript makes of a value that is used as a string
String(v) == IF v.kind = "null" THEN <<"n", "u", "l", "l">> ELSE v.text

\* FormData.append: a value that is not a file is stored as its text
append(form, name, v) ==
  Append(form, [name |-> name,
                value |-> IF v.kind = "file" THEN v ELSE Text(String(v))])

\* the body the first apply route builds for the upstream call
loxoFormData(formData) ==
  LET email    == formData["Email"]
      name     == Text(String(formData["First-Name"]) \o <<" ">>
                         \o String(formData["Last-Name"]))
      phone    == formData["Phone-Number"]
      linkedIn == formData["Linkedin-URL"]
      resume   == formData["Resume"]
  IN  append(append(append(append(append(<< >>, "email", email), "name", name),
                           "phone", phone), "linkedin", linkedIn), "resume", resume)

\* the body the second apply route builds for the upstream call
loxoFormData_plain(formData) ==
  LET email  == formData["email"]
      name   == formData["name"]
      phone  == formData["phone"]
      resume == formData["resume"]
  IN  append(append(append(append(<< >>, "email", email), "name", name),
                    "phone", phone), "resume", resume)

\* a test of the token that never finds it missing
Missing_never(env) == FALSE

\* !process.env.BEARER_AUTH
Missing(env) == ~env.set \/ env.value = ""

\* the Authorization header: "Bearer " + process.env.BEARER_AUTH
BEARER_AUTH_HEADER(env) == "Bearer " \o env.value

\* one call of the upstream API
Call(url, env, body) ==
  [url |-> url, Authorization |-> BEARER_AUTH_HEADER(env), body |-> body]


(***************************************************************************)
(* RSS feed                                                                *)
(***************************************************************************)
\* String.prototype.replace(/c/g, by) on a text
RECURSIVE replace(_, _, _)
replace(s, c, by) ==
  IF s = << >> THEN << >>
  ELSE (IF Head(s) = c THEN by ELSE <<Head(s)>>) \o replace(Tail(s), c, by)

amp  == <<"&", "a", "m", "p", ";">>
lt   == <<"&", "l", "t", ";">>
gt   == <<"&", "g", "t", ";">>
quot == <<"&", "q", "u", "o", "t", ";">>
apos == <<"&", "a", "p", "o", "s", ";">>

\* escapeXml with the ampersand replaced last
escapeXml_ampLast(unsafe) ==
  replace(replace(replace(replace(replace(unsafe, "<", lt), ">", gt), "\"", quot),
                  "'", apos), "&", amp)

\* escapeXml: the five replacements in the order of the source
escapeXml(unsafe) ==
  replace(replace(replace(replace(replace(unsafe, "&", amp), "<", lt), ">", gt),
                  "\"", quot), "'", apos)

\* new Date(published_at).toUTCString(), on the timestamps of the model
toUTCString(published_at) ==
  CASE published_at = "2024-03-01T00:00:00.000Z" -> "Fri, 01 Mar 2024 00:00:00 GMT"
    [] published_at = "2025-07-15T12:00:00.000Z" -> "Tue, 15 Jul 2025 12:00:00 GMT"
    [] OTHER -> "Invalid Date"

\* `1st January ` + now.getFullYear(), the same for every item of a feed
firstDayOfYear == "1st January of the current year"

\* the text of the title element before it is escaped
titleText(job) ==
  job.title \o (IF job.macro_address.kind # "null" /\ job.macro_address.text # << >>
                  THEN <<" ", "(">> \o job.macro_address.text \o <<")">>
                  ELSE << >>)

\* job.macro_address ?? "Remote"
locationText(job) ==
  IF job.macro_address.kind = "null" THEN Remote ELSE job.macro_address.text

\* one <item>: the content of its elements as written into the document; the
\* description is a CDATA section of two paragraphs, of which location and
\* jobId are what follows their labels
itemOf(route, job) ==
  [title       |-> escapeXml(titleText(job)),
   link        |-> <<IF route = "feed" THEN "?jobId=" ELSE "/", job.id>>,
   guid        |-> <<IF route = "feed" THEN "?jobId=" ELSE "/", job.id>>,
   pubDate     |-> IF route = "feed" THEN firstDayOfYear
                   ELSE toUTCString(job.published_at),
   description |-> [location |-> escapeXml(locationText(job)), jobId |-> job.id]]

\* generateRSSFeed: the items of the channel, one per job of results
generateRSSFeed(route, jobsResponse) ==
  [i \in DOMAIN jobsResponse.results |-> itemOf(route, jobsResponse.results[i])]

\* the responses of the feed routes
FeedResponse(items) ==
  [status |-> 200,
   ContentType |-> "application/rss+xml; charset=utf-8",
   CacheControl |-> "public, s-maxage=600, stale-while-revalidate=300",
   body |-> [text |-> "", items |-> items, success |-> FALSE, error |-> ""]]

FeedFailure ==
  [status |-> 500, ContentType |-> "text/plain;charset=UTF-8", CacheControl |-> "",
   body |-> [text |-> "Failed to generate RSS feed", items |-> << >>,
             success |-> FALSE, error |-> ""]]

\* the responses of the apply routes: NextResponse.json
ApplySuccess ==
  [status |-> 200, ContentType |-> "application/json", CacheControl |-> "",
   body |-> [text |-> "", items |-> << >>, success |-> TRUE, error |-> ""]]

ApplyFailure ==
  [status |-> 500, ContentType |-> "application/json", CacheControl |-> "",
   body |-> [text |-> "", items |-> << >>, success |-> FALSE,
             error |-> "Failed to apply for job"]]

\* GET from the settling of its fetch: a rejected fetch, a status that is not
\* ok, a body json() cannot parse and a body whose results cannot be mapped
\* all throw into the catch
GET_settled(route, outcome) ==
  IF outcome.fetched /\ outcome.ok /\ outcome.parsable /\ outcome.json.shape = "listing"
    THEN FeedResponse(generateRSSFeed(route, outcome.json))
    ELSE FeedFailure

\* POST without the test of response.ok
POST_settled_anyStatus(outcome) ==
  IF outcome.fetched /\ outcome.parsable THEN ApplySuccess ELSE ApplyFailure

\* POST from the settling of its fetch
POST_settled(outcome) ==
  IF outcome.fetched /\ outcome.ok /\ outcome.parsable THEN ApplySuccess ELSE ApplyFailure

\* a request as the server gets it; formData is what request.formData() gives
\* when the body is readable
ServerRequest(route, id, readable, formData) ==
  [route |-> route, id |-> id, readable |-> readable, formData |-> formData]

\* GET up to its fetch
GET(route) ==
  LET env == server.BEARER_AUTH
      req == ServerRequest(route, "", TRUE, [key \in Keys |-> Null])
  IN  /\ server.phase = "idle"
      /\ server' =
            IF Missing(env)
              THEN [server EXCEPT !.phase = "done", !.request = req,
                                  !.response = FeedFailure]
              ELSE [server EXCEPT !.phase = "fetching", !.request = req,
                                  !.calls = <<Call("jobs", env, << >>)>>]
      /\ UNCHANGED pageVars

\* POST up to its fetch
POST(route, id, readable, formData) ==
  LET env == server.BEARER_AUTH
      req == ServerRequest(route, id, readable, formData)
      forwarded == IF route = "apply" THEN loxoFormData(formData)
                   ELSE loxoFormData_plain(formData)
  IN  /\ server.phase = "idle"
      /\ server' =
            IF ~readable
              THEN [server EXCEPT !.phase = "done", !.request = req,
                                  !.response = ApplyFailure]
              ELSE [server EXCEPT !.phase = "fetching", !.request = req,
                                  !.calls = <<Call("jobs/" \o id \o "/apply", env,
                                                   forwarded)>>]
      /\ UNCHANGED pageVars

\* the fetch of the handler settles and the handler runs to its return
FetchSettled(outcome) ==
  /\ server.phase = "fetching"
  /\ server' = [server EXCEPT
                  !.phase = "done",
                  !.fetched = outcome,
                  !.response = IF server.request.route \in FeedRoutes
                                 THEN GET_settled(server.request.route, outcome)
                                 ELSE POST_settled(outcome)]
  /\ UNCHANGED pageVars

\* the response has gone out; the server waits for the next request
Responded ==
  /\ server.phase = "done"
  /\ server' = ServerStarted(server.BEARER_AUTH)
  /\ UNCHANGED pageVars

(***************************************************************************)
(* Server: requests and upstream answers                                   *)
(***************************************************************************)
\* the longest listing the upstream API answers with
MaxFeed == 2

Amp      == <<"R", "&", "D">>
Tagged   == <<"<", "b", ">">>
Entity   == <<"&", "l", "t", ";">>
Quoted   == <<"\"", "x", "'">>
CdataEnd == <<"]", "]", ">">>

FeedJob(id, title, macro_address, published_at) ==
  [id |-> id, title |-> title, macro_address |-> macro_address,
   published_at |-> published_at]

\* jobs of the upstream listing; a job may lack macro_address or published_at
FeedJobs ==
  {FeedJob(1, Engineer, Text(Leeds), "2024-03-01T00:00:00.000Z"),
   FeedJob(2, Amp, Null, "2025-07-15T12:00:00.000Z"),
   FeedJob(3, Tagged, Text(Amp), "2024-03-01T00:00:00.000Z"),
   FeedJob(4, Entity, Text(Quoted), ""),
   FeedJob(5, Quoted, Text(CdataEnd), "2025-07-15T12:00:00.000Z"),
   FeedJob(6, Designer, Text(<< >>), "2024-03-01T00:00:00.000Z")}

RECURSIVE ListingsUpTo(_)
ListingsUpTo(n) ==
  IF n = 0 THEN {<< >>}
  ELSE LET shorter == ListingsUpTo(n - 1)
       IN  shorter \cup {Append(l, j) : l \in shorter, j \in FeedJobs}

\* listings of distinct jobs
FeedListings ==
  {l \in ListingsUpTo(MaxFeed) :
     \A i, j \in DOMAIN l : i # j => l[i].id # l[j].id}

FeedOutcomes ==
  {Rejected, Refused(401), Refused(500), Unparsable, Answered(NoJson)}
    \cup {Answered([shape |-> "listing", results |-> l]) : l \in FeedListings}

ApplyOutcomes ==
  {Rejected, Refused(401), Refused(500), Unparsable,
   Answered([shape |-> "applied", results |-> << >>])}

\* the applications the browser controller sends: those its validation passes
SentResume == [id |-> 1, type |-> pdfLimit.type, size |-> pdfLimit.size]

SentApplications ==
  {data \in Applications : validateFormData(data, SentResume, "Unified") = << >>}

\* the multipart bodies the apply routes get
ApplyBodies == {formDataObj(data, SentResume) : data \in SentApplications}

Environments == {Unset, EmptyEnv, Secret}

InitServer ==
  /\ StandAlone("None", {""})
  /\ \E env \in Environments : server = ServerStarted(env)

NextServer ==
  \/ \E route \in FeedRoutes : GET(route)
  \/ \E route \in ApplyRoutes, id \in {"1", "2"}, formData \in ApplyBodies :
       POST(route, id, TRUE, formData)
  \/ \E route \in ApplyRoutes, id \in {"1", "2"} :
       POST(route, id, FALSE, [key \in Keys |-> Null])
  \/ \E outcome \in FeedOutcomes \cup ApplyOutcomes :
       /\ outcome \in (IF server.request.route \in FeedRoutes
                          THEN FeedOutcomes ELSE ApplyOutcomes)
       /\ FetchSettled(outcome)
  \/ Responded

SpecServer == InitServer /\ [][NextServer]_vars

(***************************************************************************)
(* Properties of the job list                                              *)
(***************************************************************************)
Range(list) == {list[i] : i \in DOMAIN list}

Count(list, x) == Cardinality({i \in DOMAIN list : list[i] = x})

IsPermutation(a, b) ==
  /\ Len(a) = Len(b)
  /\ \A x \in Range(a) \cup Range(b) : Count(a, x) = Count(b, x)

\* two characters that are the same letter, capital or small
SameLetter(a, b) ==
  \/ a = b
  \/ \E i \in DOMAIN UpperLetters : {a, b} = {UpperLetters[i], LowerLetters[i]}

\* t occurs in text at some offset, letter case ignored
ContainsIgnoringCase(text, t) ==
  \E k \in 0..(Len(text) - Len(t)) :
    \A m \in 1..Len(t) : SameLetter(text[k + m], t[m])

Blank(t) == \A i \in DOMAIN t : IsSpace(t[i])

\* t without the white space around it
Trimmed(t) ==
  IF Blank(t) THEN << >>
  ELSE CHOOSE u \in {SubSeq(t, a, b) : a, b \in DOMAIN t} :
         \E a, b \in DOMAIN t :
           /\ a <= b
           /\ u = SubSeq(t, a, b)
           /\ ~IsSpace(t[a]) /\ ~IsSpace(t[b])
           /\ \A i \in DOMAIN t : (i < a \/ i > b) => IsSpace(t[i])

\* the job carries t in its title, company or location
JobHas(job, t) ==
  \/ ContainsIgnoringCase(job.title, t)
  \/ ContainsIgnoringCase(job.company, t)
  \/ ContainsIgnoringCase(job.location, t)

\* list runs by location, letter case ignored, in the given order
OrderedByLocation(list, order) ==
  \A i \in 1..(Len(list) - 1) :
    LET c == localeCompare(toLowerCase(list[i].location),
                           toLowerCase(list[i + 1].location))
    IN  IF order = "asc" THEN c <= 0 ELSE c >= 0

\* C1: after any sequence of job-list loads and refreshes (successful or failed),
\* searches and location-sort toggles, every job of filteredJobs is a job of
\* jobs, the list fetched last.
C1_FilteredWithinJobs ==
  \A i \in DOMAIN filteredJobs : \E j \in DOMAIN jobs : jobs[j] = filteredJobs[i]

\* C1 witness: a refresh has replaced the list, a search has narrowed it and a
\* sort has reordered what is left.
C1_Witness ==
  /\ lastOp.name = "toggleSort"
  /\ jobs = <<Job2, Job3, Job1>>
  /\ Len(filteredJobs) = 2
  /\ filteredJobs[1].id > filteredJobs[2].id

\* C2: filterJobs(term) leaves in filteredJobs exactly the jobs whose title,
\* company or location holds the trimmed term, letter case ignored, in the order
\* of jobs; for [Engineer/Acme/Leeds, Designer/Acme/Remote] and "leeds" that is
\* the first job alone.
C2_FilterExact ==
  lastOp.name = "filterJobs" =>
    /\ LET Keep(job) == JobHas(job, Trimmed(lastOp.arg))
       IN  filteredJobs = SelectSeq(jobs, Keep)
    /\ (jobs = <<Job1, Job2>> /\ lastOp.arg = leedsLow) => filteredJobs = <<Job1>>

\* C2 witness: the example of the specification, typed in capitals with spaces
\* around it.
C2_Witness ==
  /\ lastOp.name = "filterJobs"
  /\ lastOp.arg = <<" ", "L", "E", "E", "D", "S", " ">>
  /\ jobs = <<Job1, Job2>>
  /\ filteredJobs = <<Job1>>

\* C3: once the list is sorted by location, filtering with an empty or
\* white-space term yields the whole of jobs in the order of the sort state.
C3_EmptyTermKeepsSortOrder ==
  (lastOp.name = "filterJobs" /\ Blank(lastOp.arg) /\ sortBy = "location") =>
    /\ IsPermutation(filteredJobs, jobs)
    /\ OrderedByLocation(filteredJobs, sortOrder)

\* C4: a search whose term no job carries leaves filteredJobs empty and the
\* 'No jobs found' placeholder in the list container, shows no banner and
\* leaves jobs as it was.
C4_NoMatchIsEmptyNotError ==
  [][(/\ lastOp'.name = "filterJobs"
      /\ ~Blank(lastOp'.arg)
      /\ \A j \in DOMAIN jobs : ~JobHas(jobs[j], Trimmed(lastOp'.arg)))
     => (/\ filteredJobs' = << >>
         /\ roleListWrap' = [kind |-> "noJobs", items |-> << >>]
         /\ jobs' = jobs
         /\ banners' = banners)]_vars

\* C4 witness: a list is loaded and the term "zz" has been searched for.
C4_Witness ==
  /\ lastOp.name = "filterJobs"
  /\ lastOp.arg = <<"z", "z">>
  /\ Len(jobs) = 3
  /\ roleListWrap.kind = "noJobs"

SortStateOK ==
  /\ sortBy \in {"title", "location", "company"}
  /\ sortOrder \in {"asc", "desc"}

\* C5: an activation of the location sort flips sortOrder when sortBy is already
\* location and otherwise sets (location, asc); filteredJobs is then its former
\* content ordered by location, letter case ignored, in that sortOrder; the sort
\* state stays within {title, location, company} x {asc, desc}.
C5_ToggleSortRule ==
  /\ []SortStateOK
  /\ [][lastOp'.name = "toggleSort" =>
          /\ sortBy' = "location"
          /\ sortBy = "location" => sortOrder' # sortOrder
          /\ sortBy # "location" => sortOrder' = "asc"
          /\ IsPermutation(filteredJobs, filteredJobs')
          /\ OrderedByLocation(filteredJobs', sortOrder')]_vars

\* C5 witness: four jobs, two of them in Leeds and leeds, sorted descending.
C5_Witness ==
  /\ lastOp.name = "toggleSort"
  /\ lastOp.arg.sortBy = "location"
  /\ sortOrder = "desc"
  /\ Len(filteredJobs) = 4

\* C6 as stated: after two location-sort toggles in a row sortOrder is asc,
\* whatever the sort state was before them.
C6_TwoTogglesGiveAsc ==
  (lastOp.name = "toggleSort" /\ lastOp.arg.again) => sortOrder = "asc"

\* C6 as amended: two toggles in a row give back the sortOrder they started from
\* when the list was already sorted by location (asc stays asc), and give desc
\* when it was sorted by another key, as in the initial state (title, asc).
C6_TwoTogglesRestoreOrder ==
  [][(lastOp.name = "toggleSort" /\ lastOp'.name = "toggleSort") =>
       sortOrder' = IF lastOp.arg.sortBy = "location"
                      THEN lastOp.arg.sortOrder
                      ELSE "desc"]_vars

\* C6 witness: the second of two toggles in a row has brought the order back to
\* asc.
C6_Witness ==
  /\ lastOp.name = "toggleSort"
  /\ lastOp.arg.again
  /\ lastOp.arg.sortBy = "location"
  /\ sortOrder = "asc"

(***************************************************************************)
(* Properties of the views                                                 *)
(***************************************************************************)
\* s is the one section on display
OnlyVisible(s) == \A t \in Sections : Visible(t) <=> t = s

\* the address carries a job id
UrlHasJobId(url) == url # "" /\ ~isNaN(parseInt(url))

\* C7: exactly one of the listing, description and application sections is on
\* display, after any selections, back actions, apply actions, Escape presses
\* and popstate signals.
C7_ExactlyOneView == Cardinality({s \in Sections : Visible(s)}) = 1

C9_EscapeShowsListing ==
  lastOp.name \in {"escape", "back"} => OnlyVisible("roles")

\* C10: a popstate signal makes the controller derive the view from the address
\* of the entry arrived at, whatever the entry: with a job id in it the job is
\* fetched again and, the fetch succeeding, its description shown; without one
\* the listing is shown.
C10_PopstateFollowsUrl ==
  /\ lastOp.name = "popstate" =>
       IF UrlHasJobId(lastOp.arg.url)
         THEN BagIn(Request("details", "nav", parseInt(lastOp.arg.url)), requests)
         ELSE OnlyVisible("roles")
  /\ (lastOp.name = "detailsLoaded" /\ lastOp.arg.origin = "nav") =>
       /\ OnlyVisible("description")
       /\ currentJob = lastOp.arg.id


\* the handler that ran last has brought a change of view to its end: a detail
\* response, a back, apply or Escape action, or a popstate that fetches nothing
ViewTransitionCompleted ==
  \/ lastOp.name \in {"detailsLoaded", "back", "backToDescription", "apply", "escape"}
  \/ lastOp.name = "detailsFailed" /\ lastOp.arg.origin # "click"
  \/ lastOp.name = "popstate" /\ ~(UrlHasJobId(lastOp.arg.url) /\ lastOp.arg.state # 0)

\* the address of the current history entry mirrors the view on display
UrlMirrorsView ==
  /\ (Visible("description") \/ Visible("application")) =>
       /\ currentJob # 0
       /\ getJobIdFromURL(cursor) = toString(currentJob)
  /\ Visible("roles") => getJobIdFromURL(cursor) = ""

\* C11: in the unified controller, after every completed change of view the
\* address carries jobId = currentJob.id when the description or the application
\* is on display, and no jobId when the listing is on display.
C11_UrlMirrorsSelectedJob ==
  (controller = "Unified" /\ ViewTransitionCompleted) => UrlMirrorsView

\* C11 witness: the page was opened at ?jobId=1, job 2 was selected later and
\* the visitor has gone on to the application; the address says jobId=2.
C11_Witness ==
  /\ controller = "Unified"
  /\ lastOp.name = "apply"
  /\ history[1].url = "1"
  /\ currentJob = 2
  /\ Visible("application")
  /\ getJobIdFromURL(cursor) = "2"


(***************************************************************************)
(* Properties of the search debounce and of the job-list fetch             *)
(***************************************************************************)
\* the step is a keystroke in the search field (clearSearch, which the enhanced
\* manager does not have, is the only other step that changes the value)
Keystroke ==
  \/ lastOp'.name = "input"
  \/ controller = "Enhanced" /\ searchValue' # searchValue

\* the step is the firing of a debounce timer
TimerFires == Cardinality(searchTimers') < Cardinality(searchTimers)

\* C12: at most one debounce timer is pending; a keystroke cancels the pending
\* timer, starts the only pending one and renders nothing; the render happens
\* when the timer fires, once, with the value the field then holds.
C12_DebounceSingleFlight ==
  /\ [](Cardinality(searchTimers) <= 1)
  /\ [][/\ Keystroke =>
             /\ searchTimers' = {debounceTimer'}
             /\ filteredJobs' = filteredJobs
             /\ roleListWrap' = roleListWrap
        /\ TimerFires =>
             /\ searchTimers' = {}
             /\ filteredJobs' = filterJobs(jobs, searchValue)
             /\ roleListWrap' = renderJobList(filteredJobs')]_vars

\* C13: a failed job-list fetch shows an error banner, starts no other fetch and
\* leaves jobs and filteredJobs as they were; after a failed refresh of a list
\* that had been fetched, the list container still shows the job list, as
\* rendered from filteredJobs.
C13_FailedFetchKeepsList ==
  [][lastOp'.name = "jobsFailed" =>
       /\ jobs' = jobs
       /\ filteredJobs' = filteredJobs
       /\ BannerShown("error")'
       /\ BagCardinality(requests') = BagCardinality(requests) - 1
       /\ (lastOp'.arg = "refresh" /\ jobs # << >>) =>
            roleListWrap' = renderJobList(filteredJobs')
    ]_vars


(***************************************************************************)
(* Properties of the files of the application form                         *)
(***************************************************************************)
\* the files pending for an input, in the order they were taken
Pending(input) ==
  CASE input = "additional" -> uploadedAdditionalFiles
    [] input = "Resume" ->
         IF uploadedResumeFile = NoFile THEN << >> ELSE <<uploadedResumeFile>>
    [] OTHER ->
         IF uploadedCoverLetterFile = NoFile THEN << >> ELSE <<uploadedCoverLetterFile>>

\* PDF, DOC, DOCX or plain text, and no more than 5 MB
Acceptable(file) ==
  /\ file.type \in {"application/pdf", "application/msword",
                    "application/vnd.openxmlformats-officedocument.wordprocessingml.document",
                    "text/plain"}
  /\ file.size <= 5 * 1024 * 1024

\* the step is a change event of a file input
FilesChosen == lastOp'.name = "change"

\* C14: a selected file becomes pending only if its type is PDF, DOC, DOCX or
\* plain text and its size is at most 5 MB; a file that fails either check is
\* never pending and gets no token, an error message about it is before the
\* visitor's eyes, and a selection of failing files only leaves the pending
\* files and the tokens as they were.
C14_OnlyAcceptableFilesAdded ==
  /\ [](\A input \in FileInputs : \A i \in DOMAIN Pending(input) :
          Acceptable(Pending(input)[i]))
  /\ [][\A input \in FileInputs : (FilesChosen /\ lastOp'.arg.input = input) =>
          LET files   == lastOp'.arg.files
              failing == {i \in DOMAIN files : ~Acceptable(files[i])}
          IN  /\ \A i \in failing :
                    /\ files[i] \notin Range(Pending(input)')
                    /\ files[i] \notin Range(fileTokens'[input])
              /\ failing # {} =>
                    /\ ErrorShown'
                    /\ \E i \in failing : ErrorText' = join(validateFile(files[i]))
              /\ failing = DOMAIN files =>
                    /\ \A other \in FileInputs : Pending(other)' = Pending(other)
                    /\ fileTokens' = fileTokens
       ]_vars

\* C15: whatever files were chosen or removed, whatever was submitted and
\* however often the form was reinitialized, at most three additional files are
\* pending, at most one resume and at most one cover letter.
C15_PendingFilesBounded ==
  /\ Len(Pending("additional")) <= 3
  /\ Len(Pending("Resume")) <= 1
  /\ Len(Pending("cover_letter")) <= 1

\* C15 witness: a resume and a cover letter are pending, one additional file
\* was pending and a selection of four more has just filled the list.
C15_Witness ==
  /\ formScript = "Resume"
  /\ lastOp.name = "change"
  /\ lastOp.arg.input = "additional"
  /\ Len(lastOp.arg.files) = 4
  /\ lastOp.arg.files[3] \notin Range(uploadedAdditionalFiles)
  /\ Len(uploadedAdditionalFiles) = 3
  /\ uploadedResumeFile # NoFile
  /\ uploadedCoverLetterFile # NoFile

\* C16: when acceptable files are chosen for the additional-files input and
\* the pending ones and the chosen ones are more than three together, the list
\* is filled up to three in the order chosen, the files in excess are not taken,
\* and the message 'You can only upload up to 3 additional files.' is shown.
C16_ExcessFilesRejected ==
  [][(/\ formScript = "Resume"
      /\ FilesChosen
      /\ lastOp'.arg.input = "additional"
      /\ \A i \in DOMAIN lastOp'.arg.files : Acceptable(lastOp'.arg.files[i])
      /\ Len(uploadedAdditionalFiles) + Len(lastOp'.arg.files) > 3) =>
       LET files == lastOp'.arg.files
           room  == 3 - Len(uploadedAdditionalFiles)
       IN  /\ uploadedAdditionalFiles' = uploadedAdditionalFiles \o SubSeq(files, 1, room)
           /\ fileTokens'["additional"] =
                fileTokens["additional"] \o SubSeq(files, 1, room)
           /\ ErrorShown'
           /\ ErrorText' = "You can only upload up to 3 additional files."
    ]_vars

\* the tokens on display are those of the pending files
TokensMatchPending ==
  \A input \in FileInputs : Range(fileTokens[input]) = Range(Pending(input))

\* C17: the click on the remove button of a token removes that token and that
\* file: the resume or the cover letter slot is emptied, the additional list
\* loses exactly the file of the token; the files and the tokens of the other
\* inputs, and the other files and tokens of the same input, stay as they were;
\* afterwards the tokens on display are those of the pending files.
C17_RemovalClearsItsSlot ==
  [][\A input \in FileInputs : (lastOp'.name = "removeFile" /\ lastOp'.arg.input = input) =>
       LET file == lastOp'.arg.file
           Kept(f) == f # file
       IN  /\ Pending(input)' = SelectSeq(Pending(input), Kept)
           /\ input # "additional" => Pending(input)' = << >>
           /\ fileTokens'[input] = SelectSeq(fileTokens[input], Kept)
           /\ \A other \in FileInputs \ {input} :
                 /\ Pending(other)' = Pending(other)
                 /\ fileTokens'[other] = fileTokens[other]
           /\ TokensMatchPending'
    ]_vars


(***************************************************************************)
(* Properties of the submission of the application form                    *)
(***************************************************************************)
\* the value has the shape local@domain.tld
LocalAtDomainDotTld(value) ==
  \E at, dot \in DOMAIN value :
    LET Part(from, to) == {value[i] : i \in from..to}
        Plain(from, to) ==
          /\ from <= to
          /\ "@" \notin Part(from, to)
          /\ \A c \in Part(from, to) : ~IsSpace(c)
    IN  /\ value[at] = "@"
        /\ value[dot] = "."
        /\ Plain(1, at - 1)
        /\ Plain(at + 1, dot - 1)
        /\ Plain(dot + 1, Len(value))

\* the messages of the checks that the application on the form fails
FailingChecks ==
  {m \in {"First name is required", "Last name is required", "Email is required",
          "Phone number is required", "Please enter a valid email address",
          "Please upload your resume"} :
     \/ m = "First name is required" /\ Blank(formFields.firstName)
     \/ m = "Last name is required" /\ Blank(formFields.lastName)
     \/ m = "Email is required" /\ Blank(formFields.email)
     \/ m = "Phone number is required" /\ Blank(formFields.phoneNumber)
     \/ /\ m = "Please enter a valid email address"
        /\ ~Blank(formFields.email)
        /\ ~LocalAtDomainDotTld(formFields.email)
     \/ m = "Please upload your resume" /\ uploadedResumeFile = NoFile}

\* the step is a submit event of the form
SubmitAttempt == lastOp'.name = "submit"

\* the error banners in the document
ErrorBanners == {b \in BagToSet(banners) : b.kind = "error" /\ b.attached}

\* C18: in the unified controller and in resume-form.ts, a submit attempt with
\* a blank first name, last name, email or phone number, an email that is not of
\* the shape local@domain.tld, or no pending resume sends no request, leaves
\* one error banner on display whose text contains the message of every
\* failing check, and leaves the pending files and their tokens as they were.
C18_InvalidSubmitSendsNothing ==
  [][(SubmitAttempt /\ formScript \in {"Unified", "Resume"} /\ FailingChecks # {}) =>
       /\ applyRequests' = applyRequests
       /\ requests' = requests
       /\ submitDisabled' = submitDisabled
       /\ Cardinality(ErrorBanners') = 1
       /\ \A b \in ErrorBanners' : banners'[b] = 1
       /\ ErrorShown'
       /\ \A m \in FailingChecks : includes(ErrorText', m)
       /\ \A input \in FileInputs : Pending(input)' = Pending(input)
       /\ fileTokens' = fileTokens
    ]_vars

\* C18 witness: resume-form.ts, nothing typed but an email without a top-level
\* domain, no resume chosen, submit pressed: nothing is sent and the banner
\* lists the five failures.
C18_Witness ==
  /\ formScript = "Resume"
  /\ lastOp.name = "submit"
  /\ formFields = [EmptyForm EXCEPT !.email = <<"a", "@", "b">>]
  /\ uploadedResumeFile = NoFile
  /\ applyRequests = EmptyBag
  /\ ErrorShown
  /\ ErrorText = "First name is required. Last name is required. "
                   \o "Please enter a valid email address. "
                   \o "Phone number is required. Please upload your resume"

\* C19: in the unified controller and in resume-form.ts, a submit attempt with
\* the consent box unchecked sends no request and ends with an error message
\* on display, whatever the other fields and the resume are.
C19_ConsentRequired ==
  [][(SubmitAttempt /\ formScript \in {"Unified", "Resume"} /\ ~formFields.consent) =>
       /\ applyRequests' = applyRequests
       /\ ErrorShown'
    ]_vars

\* every required field is filled in and valid, and a valid resume is pending
ApplicationValid ==
  /\ FailingChecks = {}
  /\ formFields.linkedinUrl = << >>
  /\ formFields.consent
  /\ Acceptable(uploadedResumeFile)

\* C20: a submit attempt with every required field valid and a valid resume
\* pending sends exactly one POST, whatever address the page was opened at and
\* whatever happened on it before; requests are sent by submit attempts only,
\* so none is sent again after a response.
C20_ValidSubmitSendsOnePost ==
  [][/\ (SubmitAttempt /\ ApplicationValid) =>
          BagCardinality(applyRequests') = BagCardinality(applyRequests) + 1
     /\ BagCardinality(applyRequests') > BagCardinality(applyRequests) =>
          /\ SubmitAttempt
          /\ BagCardinality(applyRequests') = BagCardinality(applyRequests) + 1
    ]_vars

\* a submission is in flight
InFlight == applyRequests # EmptyBag

\* the submit button can be pressed and carries the label of the page
ButtonReady == ~submitDisabled /\ submitValue = originalButtonText

\* the submit button is disabled and reads "Applying..."
ButtonBusy == submitDisabled /\ submitValue = "Applying..."

\* C21: the submit button is disabled and reads "Applying..." exactly while a
\* submission is in flight; the step in which the request settles, with a
\* success or with any failure, gives the button back enabled with its
\* original label, and every request that is in flight leads to that.
C21_DisabledWhileInFlight ==
  /\ [](IF InFlight THEN ButtonBusy ELSE ButtonReady)
  /\ [][lastOp'.name \in {"submitSucceeded", "submitFailed"} => ButtonReady']_vars
  /\ (InFlight ~> ButtonReady)

\* C21 witness: a submission has failed and the button is ready again.
C21_Witness ==
  /\ lastOp.name = "submitFailed"
  /\ ButtonReady
  /\ ~InFlight
  /\ ErrorText = "Failed to submit application. Please try again."

\* a success message is before the visitor's eyes
SuccessShown ==
  \/ \E b \in BagToSet(banners) :
       /\ b.kind = "success"
       /\ b.attached
       /\ (b.parent = "form" \/ Visible(b.parent))
  \/ wMessages.done

\* C22: the step that handles a successful response leaves the form reset, no
\* file pending, no token in the page and a success message on display; the
\* step that handles a failed submission leaves an error message on display
\* and the fields, the pending files and the tokens as they were.
C22_AfterSubmission ==
  [][/\ lastOp'.name = "submitSucceeded" =>
          /\ formFields' = EmptyForm
          /\ \A input \in FileInputs :
                /\ Pending(input)' = << >>
                /\ fileTokens'[input] = << >>
          /\ SuccessShown'
     /\ lastOp'.name = "submitFailed" =>
          /\ ErrorShown'
          /\ ErrorText' = "Failed to submit application. Please try again."
          /\ formFields' = formFields
          /\ \A input \in FileInputs : Pending(input)' = Pending(input)
          /\ fileTokens' = fileTokens
    ]_vars

\* C22 witness: resume-form.ts, a submission with a resume, a cover letter and
\* additional files has succeeded.
C22_Witness ==
  /\ formScript = "Resume"
  /\ lastOp.name = "submitSucceeded"
  /\ formFields = EmptyForm
  /\ fileTokens = [input \in FileInputs |-> << >>]
  /\ uploadedResumeFile = NoFile
  /\ uploadedAdditionalFiles = << >>
  /\ SuccessShown
  /\ formHidden


(***************************************************************************)
(* Properties of the banners                                               *)
(***************************************************************************)
\* how many messages of the kind are in the document and displayed: banner
\* elements, and the page's own block of form.ts
Displayed(kind) ==
  LET shown == {b \in BagToSet(banners) : b.kind = kind /\ b.attached}
      block == IF kind = "error" THEN wMessages.fail ELSE wMessages.done
  IN  BagCardinality([b \in shown |-> banners[b]]) + (IF block THEN 1 ELSE 0)

\* C23: at no time is more than one error message or more than one success
\* message in the document and displayed, whatever the order and the timing of
\* failed validations, refused files, submissions and failed fetches.
C23_OneBannerPerKind ==
  /\ Displayed("error") <= 1
  /\ Displayed("success") <= 1

\* C23 witness: in the unified controller a failed job-list fetch has put its
\* error banner in the place of an earlier one, whose timer is still pending.
C23_Witness ==
  /\ controller = "Unified"
  /\ lastOp.name = "jobsFailed"
  /\ Displayed("error") = 1
  /\ ErrorText = "Failed to load jobs"
  /\ \E b \in BagToSet(banners) : b.kind = "error" /\ ~b.attached

\* the step is the firing of a timer whose message has been replaced: the
\* timer of a banner element that is no longer in the document, or the older of
\* two pending timers of the same block of form.ts (timers of one kind last
\* equally long, so the older fires first)
StaleTimerFires ==
  /\ lastOp'.name = "bannerTimeout"
  /\ \/ \E el \in BagToSet(banners) : ~el.attached /\ banners' = OneLess(banners, el)
     \/ \E block \in BagToSet(wTimers) :
          /\ wTimers[block] >= 2
          /\ wTimers' = OneLess(wTimers, block)

\* C24: the firing of the timer of a message that has been replaced changes
\* nothing that is on display: the message that replaced it stays, with its
\* text.
C24_StaleTimerHarmless ==
  [][StaleTimerFires =>
       /\ Displayed("error")' = Displayed("error")
       /\ Displayed("success")' = Displayed("success")
       /\ ErrorText' = ErrorText
    ]_vars

(***************************************************************************)
(* Properties of the server routes                                         *)
(***************************************************************************)
\* the handler of the request has made an upstream call or has returned
Serving(routes) ==
  /\ server.phase \in {"fetching", "done"}
  /\ server.request.route \in routes

Returned(routes) ==
  /\ server.phase = "done"
  /\ server.request.route \in routes

TokenAbsent == ~server.BEARER_AUTH.set

\* C25: in every route that talks to the upstream API - the feed GET and both
\* apply POSTs - a request served while the bearer token is absent makes no
\* upstream call and is answered with HTTP 500.
C25_NoTokenNoUpstreamCall ==
  (TokenAbsent /\ Serving(FeedRoutes \cup ApplyRoutes)) =>
      /\ server.calls = << >>
      /\ server.phase = "done"
      /\ server.response.status = 500

\* the fetch of the request was fulfilled with a success status and a body
\* that json() parses
UpstreamSucceeded ==
  /\ Len(server.calls) = 1
  /\ server.fetched.fetched
  /\ server.fetched.ok
  /\ server.fetched.parsable

\* C26: the feed route makes at most one upstream call per request; when the
\* token is missing, the fetch is rejected, the upstream status is not a
\* success or the body cannot be parsed or is not a listing, it answers 500
\* with the one fixed plain text; it answers with the application/rss+xml
\* body and the shared-cache directive only when the upstream call succeeded.
C26_FeedFailsClosed ==
  /\ Serving(FeedRoutes) => Len(server.calls) <= 1
  /\ Returned(FeedRoutes) =>
        /\ server.response \in {FeedFailure} \cup
              {FeedResponse(generateRSSFeed(server.request.route, server.fetched.json))}
        /\ (~server.BEARER_AUTH.set \/ server.BEARER_AUTH.value = ""
             \/ ~UpstreamSucceeded \/ server.fetched.json.shape # "listing")
              => /\ server.response.status = 500
                 /\ server.response.body.text = "Failed to generate RSS feed"
                 /\ server.response.ContentType = "text/plain;charset=UTF-8"
                 /\ server.response.CacheControl = ""
        /\ (\/ server.response.status # 500
            \/ server.response.ContentType = "application/rss+xml; charset=utf-8"
            \/ server.response.CacheControl # "")
              => /\ UpstreamSucceeded
                 /\ server.response.ContentType = "application/rss+xml; charset=utf-8"
                 /\ server.response.CacheControl =
                      "public, s-maxage=600, stale-while-revalidate=300"

\* the feed has answered 500 to a success of the upstream API whose body is
\* not JSON
C26_Witness ==
  /\ Returned(FeedRoutes)
  /\ server.fetched = Unparsable
  /\ Len(server.calls) = 1
  /\ server.response = FeedFailure

\* what the apply route answers, whatever the request and the upstream answer:
\* success only after a success status with a parsable body, else 500 with
\* the one error text
ApplyAnswersRight ==
  Returned(ApplyRoutes) =>
    /\ server.response.body.success =>
          /\ server.response.status = 200
          /\ server.request.readable
          /\ UpstreamSucceeded
    /\ ~(server.request.readable /\ UpstreamSucceeded) =>
          /\ server.response.status = 500
          /\ ~server.response.body.success
          /\ server.response.body.error = "Failed to apply for job"

\* C27 (as amended): the apply route makes one upstream call per request whose
\* form data it can read and none for a request whose form data it cannot
\* read, never a second one; it answers {success: true, data} only when the
\* upstream status was a success and the body parsed; in every other case
\* (status not a success, fetch rejected, body not parsable, form data
\* unreadable) it answers 500 with an error text that is the same for every
\* upstream status.
C27_OneCallNoRetry ==
  /\ Serving(ApplyRoutes) =>
        Len(server.calls) = (IF server.request.readable THEN 1 ELSE 0)
  /\ ApplyAnswersRight

\* the apply route has answered 500 to an upstream 401, after its one call
C27_Witness ==
  /\ Returned(ApplyRoutes)
  /\ server.fetched = Refused(401)
  /\ Len(server.calls) = 1
  /\ server.response = ApplyFailure

\* C27 (as stated): the apply route makes exactly one upstream call per
\* request, and answers as above.
C27_ExactlyOneCall ==
  /\ Serving(ApplyRoutes) => Len(server.calls) = 1
  /\ ApplyAnswersRight

\* the values the upstream call of the request carries under a name
Forwarded(name) ==
  {server.calls[1].body[i].value :
     i \in {k \in DOMAIN server.calls[1].body : server.calls[1].body[k].name = name}}

\* the apply route has made its upstream call for the application data, sent
\* by the browser controller with its resume
Forwarding(data) ==
  /\ Serving(ApplyRoutes)
  /\ server.request.readable
  /\ server.request.formData = formDataObj(data, SentResume)

\* C28: for every application the browser controller submits, the body the
\* apply route forwards carries the applicant's data unchanged: email, phone
\* and resume are the submitted ones, the name is the first name, a space and
\* the last name, the LinkedIn URL is forwarded when one was given, and no
\* forwarded field is empty or the text of null.
C28_ForwardedUnchanged ==
  \A data \in SentApplications :
    Forwarding(data) =>
      /\ Forwarded("email") = {Text(data.email)}
      /\ Forwarded("phone") = {Text(data.phoneNumber)}
      /\ Forwarded("resume") = {FilePart(SentResume)}
      /\ Forwarded("name") = {Text(data.firstName \o <<" ">> \o data.lastName)}
      /\ data.linkedinUrl # << >> => Forwarded("linkedin") = {Text(data.linkedinUrl)}
      /\ \A i \in DOMAIN server.calls[1].body :
            LET value == server.calls[1].body[i].value
            IN  \/ value.kind = "file"
                \/ /\ value.kind = "text"
                   /\ value.text # << >>
                   /\ value.text # <<"n", "u", "l", "l">>

(***************************************************************************)
(* Properties of the feed                                                  *)
(***************************************************************************)
\* the text s begins with the text prefix
StartsWith(s, prefix) ==
  /\ Len(s) >= Len(prefix)
  /\ SubSeq(s, 1, Len(prefix)) = prefix

\* the part of a text before the first occurrence of stop
RECURSIVE Before(_, _)
Before(s, stop) ==
  IF s = << >> \/ StartsWith(s, stop) THEN << >>
  ELSE <<Head(s)>> \o Before(Tail(s), stop)

\* the character references of XML, which are also those HTML knows
References ==
  {[text |-> amp, char |-> "&"], [text |-> lt, char |-> "<"], [text |-> gt, char |-> ">"],
   [text |-> quot, char |-> "\""], [text |-> apos, char |-> "'"]}

\* a parser's reading of character data: each reference becomes its character
RECURSIVE Decode(_)
Decode(s) ==
  IF s = << >> THEN << >>
  ELSE IF \E r \in References : StartsWith(s, r.text)
    THEN LET r == CHOOSE x \in References : StartsWith(s, x.text)
         IN  <<r.char>> \o Decode(SubSeq(s, Len(r.text) + 1, Len(s)))
  ELSE <<Head(s)>> \o Decode(Tail(s))

\* what an XML parser gives for the content of an element: the character data
\* up to the next tag, decoded
XmlText(content) == Decode(Before(content, <<"<">>))

\* what an XML parser gives for a CDATA section: its characters as they are,
\* up to the end mark
XmlCdata(content) == Before(content, <<"]", "]", ">">>)

\* what an HTML parser gives for the text of a paragraph
HtmlText(content) == Decode(Before(content, <<"<">>))

\* the feed route has answered with a feed
FeedServed ==
  /\ Returned(FeedRoutes)
  /\ server.response.status = 200

FeedItems == server.response.body.items

FeedResults == server.fetched.json.results

\* C29 (as amended): in every item of a served feed the title element, read
\* by an XML parser, is the text the title was made of (the job's title and
\* its location in brackets), and the location of the description, which
\* is HTML inside a CDATA section, is the job's location once the section
\* is read by an XML parser and its paragraph by an HTML parser; nothing is
\* escaped twice.
C29_RoundTrip ==
  FeedServed =>
    \A i \in DOMAIN FeedItems :
      /\ XmlText(FeedItems[i].title) = titleText(FeedResults[i])
      /\ HtmlText(XmlCdata(FeedItems[i].description.location))
           = locationText(FeedResults[i])

\* a served feed with a job whose title holds < and > and whose location
\* holds &
C29_Witness ==
  /\ FeedServed
  /\ \E i \in DOMAIN FeedItems :
       /\ FeedResults[i].title = Tagged
       /\ locationText(FeedResults[i]) = Amp
       /\ FeedItems[i].title # titleText(FeedResults[i])

\* C29 (as stated): in every item of a served feed, re-parsing the XML gives
\* back the title and the location exactly as they were before escaping.
C29_XmlRoundTrip ==
  FeedServed =>
    \A i \in DOMAIN FeedItems :
      /\ XmlText(FeedItems[i].title) = titleText(FeedResults[i])
      /\ XmlCdata(FeedItems[i].description.location) = locationText(FeedResults[i])

\* the instant an RSS reader takes from a pubDate: Date.parse of the text, as
\* an ISO timestamp; "" when the text is no date
ParseDate(text) ==
  CASE text = "Fri, 01 Mar 2024 00:00:00 GMT" -> "2024-03-01T00:00:00.000Z"
    [] text = "Tue, 15 Jul 2025 12:00:00 GMT" -> "2025-07-15T12:00:00.000Z"
    [] OTHER -> ""

\* C30: a served feed has exactly one item per job of the listing, in the
\* order of the listing, and the publish date of every item is the published
\* timestamp of its job whenever the job has one, never a fixed placeholder.
C30_OneItemPerJobWithItsDate ==
  FeedServed =>
    /\ Len(FeedItems) = Len(FeedResults)
    /\ \A i \in DOMAIN FeedItems :
         /\ FeedItems[i].link[2] = FeedResults[i].id
         /\ FeedItems[i].guid[2] = FeedResults[i].id
         /\ FeedResults[i].published_at # ""
              => ParseDate(FeedItems[i].pubDate) = FeedResults[i].published_at
         /\ FeedItems[i].pubDate # firstDayOfYear

(***************************************************************************)
(* Properties of overlapping fetches and of the session history            *)
(***************************************************************************)
\* a job-detail fetch started by a click on a job is still outstanding
SelectionOutstanding ==
  \E r \in BagToSet(requests) : r.kind = "details" /\ r.origin = "click"

\* the response of a selection has just arrived, it was the last one awaited,
\* and no fetch of the latest selection has failed
SelectionsAnswered ==
  /\ controller = "Unified"
  /\ lastOp.name = "detailsLoaded"
  /\ lastOp.arg.origin = "click"
  /\ ~SelectionOutstanding
  /\ lastSelected # 0

\* C31: when the visitor has selected job A and then job B while the fetch of
\* A was outstanding, then once both responses have arrived, in either order,
\* the description shown, currentJob, the jobId of the address and the job id
\* used for the apply request are those of B, the latest selection.
C31_LatestSelectionWins ==
  SelectionsAnswered =>
    /\ Visible("description")
    /\ currentJob = lastSelected
    /\ getJobIdFromURL(cursor) = toString(lastSelected)
    /\ jobId = toString(lastSelected)

\* the visitor has just returned to the listing: by the back button of the
\* page, by Escape, or by a popstate to an address without jobId
ReturnedToListing ==
  /\ controller = "Unified"
  /\ Visible("roles")
  /\ \/ lastOp.name \in {"back", "escape"}
     \/ lastOp.name = "popstate" /\ lastOp.arg.url = ""

\* C32: when the visitor has returned to the listing while a job-detail fetch
\* is outstanding, the arrival of its response leaves the listing on display
\* and puts no jobId into the address.
C32_LateResponseKeepsListing ==
  [][(ReturnedToListing /\ lastOp'.name = "detailsLoaded")
       => (Visible("roles")' /\ getJobIdFromURL(cursor)' = "")]_vars

\* the step is the popstate handler, up to its fetch or from the settling of
\* its fetch to its end
PopstateHandled ==
  \/ lastOp'.name = "popstate"
  \/ /\ lastOp'.name \in {"detailsLoaded", "detailsFailed"}
     /\ lastOp'.arg.origin = "nav"

\* C33: handling a popstate pushes no entry: the session history is the same
\* after the handler as when the event arrived, so that going back again and
\* again walks through the earlier entries and leaves the page in the end.
C33_PopstatePushesNothing ==
  [][PopstateHandled => history' = history]_vars

(***************************************************************************)
(* Properties of the initialization                                        *)
(***************************************************************************)
\* the constructor of the unified controller has just returned on a page
\* without the elements of the form
StartedWithoutForm ==
  /\ controller = "Unified"
  /\ formScript = "None"
  /\ lastOp.name = "constructor"

\* C34: on a page without the form, the resume input or the submit button the
\* unified controller starts all the same: the job-list fetch is out, the
\* list container shows the loading placeholder, and there is no
\* 'System initialization failed' banner.
C34_StartsWithoutForm ==
  StartedWithoutForm =>
    /\ \E r \in BagToSet(requests) : r.kind = "jobs" /\ r.origin = "init"
    /\ roleListWrap = showLoading
    /\ \A b \in BagToSet(banners) :
         b.msg # "System initialization failed. Please refresh the page."

(***************************************************************************)
(* Properties of the target of the application                             *)
(***************************************************************************)
\* the step issues an apply POST
PostIssued == BagCardinality(applyRequests') > BagCardinality(applyRequests)

\* C35: in the unified controller every apply POST goes to the job that
\* currentJob holds, the job whose description the visitor saw last, whatever
\* loads, selections, back and Escape presses, popstate events and
\* reinitialize calls came before.
C35_PostGoesToCurrentJob ==
  [][(controller = "Unified" /\ PostIssued) =>
       /\ currentJob # 0
       /\ \A r \in BagToSet(applyRequests') :
            applyRequests'[r] > (IF BagIn(r, applyRequests) THEN applyRequests[r] ELSE 0)
              => r.url = toString(currentJob)]_vars

----------------------------------------------------------------------------
\* Properties of the submissions in flight

\* the form on display is complete: pressing an enabled submit button would
\* send it
ReadyToSend ==
  /\ formScript # "None"
  /\ FormVisible
  /\ validateFormData(formFields, uploadedResumeFile, formScript) = << >>
  /\ (formScript = "Resume" \/ jobId # "")

----------------------------------------------------------------------------
\* Properties of the sorted list

\* the step just taken has rendered the job list from a search, a cleared
\* search or a fetch of the jobs that succeeded
RenderedAgain == lastOp.name \in {"filterJobs", "jobsLoaded"}

\* C37: once the list is sorted by location, filteredJobs runs by location,
\* letter case ignored, in the direction of sortOrder after every later
\* render: after a search with a term, after a cleared search and after a
\* refresh that succeeded.
C37_SortSurvivesRender ==
  (sortBy = "location" /\ RenderedAgain) =>
    OrderedByLocation(filteredJobs, sortOrder)

=============================================================================
